---- MODULE Spec2Model ----
(***************************************************************************)
(* A model of the resource resolution engine of workload-automation:       *)
(*   - ResourceResolver (wa/framework/resource.py): load, register, get    *)
(*   - ApkInfoCache     (wa/utils/android.py): __init__, store, get_info   *)
(* The two parts share no state; each has its own specification.           *)
(***************************************************************************)
EXTENDS Integers, Sequences, FiniteSets, TLC

(***************************************************************************)
(* Bounds of the model.                                                    *)
(***************************************************************************)
\* at most this many calls of ResourceResolver.register in one behaviour
MaxReg == 3
\* at most this many calls of ResourceResolver.load in one behaviour
MaxLoads == 2
\* at most this many replacements of the cache file in one behaviour
MaxWrites == 3

(***************************************************************************)
(* Part 1: the resolver.                                                   *)
(***************************************************************************)
VARIABLES
    getters,      \* ResourceResolver.getters: the list of loaded getters
    sources,      \* ResourceResolver.sources: the prioritylist of sources
    registered,   \* history: registered[n] is the priority the n-th call of
                  \* register was given; the n-th registered source is n
    load,         \* the position of a running load() and what it did so far
    got           \* the last call of get(): its inputs, result and probes

resolverVars == <<getters, sources, registered, load, got>>

\* The state of the cache of apk metadata (part 2).
VARIABLES
    file,           \* the file at ApkInfoCache.path: absent, complete, partial
    fstat,          \* os.stat(path): changes whenever the file is replaced
    tmp,            \* tmp[i]: the temporary file of the store running in i
    alive,          \* alive[i]: cache object i exists
    cache,          \* cache[i]: ApkInfoCache.cache of object i
    last_modified,  \* last_modified[i]: ApkInfoCache.last_modified, 0 is None
    pc,             \* pc[i]: the position of the store running in object i
    call,           \* call[i]: the arguments of the store running in i
    ret             \* the last operation that ended, and its result

cacheVars ==
    <<file, fstat, tmp, alive, cache, last_modified, pc, call, ret>>

\* The apk files and the evaluation of the matchers (part 3).
VARIABLES
    apk_mtime,      \* apk_mtime[path]: st_mtime of the apk, 0 is no file
    matching        \* the last call of a matcher: its inputs and result

apkVars == <<apk_mtime, matching>>

VARIABLE
    exclusive       \* the users of the cache synchronise: one operation at a time


\* SourcePriority = enum(['package', 'remote', 'lan', 'local', 'perferred'],
\*                       start=0, step=10)
SourcePriority ==
    [package |-> 0, remote |-> 10, lan |-> 20, local |-> 30, perferred |-> 40]

Priorities == {SourcePriority[n] : n \in DOMAIN SourcePriority}

\* The plugin catalog: loader.list_plugins('resource_getter'), in its fixed
\* enumeration order.
Catalog == <<"getter1", "getter2">>

(***************************************************************************)
(* prioritylist (wa.utils.types): add(element, priority) and iteration     *)
(* from the highest to the lowest priority, in insertion order within one  *)
(* priority.                                                               *)
(***************************************************************************)
prioritylist == [p \in Priorities |-> << >>]

prioritylist_add(pl, element, priority) ==
    [pl EXCEPT ![priority] = Append(@, element)]

RECURSIVE prioritylist_iter_over(_, _)
prioritylist_iter_over(pl, ps) ==
    IF ps = {} THEN << >>
    ELSE LET top == CHOOSE x \in ps : \A y \in ps : y <= x
         IN  pl[top] \o prioritylist_iter_over(pl, ps \ {top})

prioritylist_iter(pl) == prioritylist_iter_over(pl, Priorities)

(***************************************************************************)
(* What a source returns when it is called with the resource of a get():   *)
(* a path, None, or it raises.  The path of source n is written Path(n).   *)
(***************************************************************************)
NoPath == [kind |-> "none", of |-> 0]
Raises == [kind |-> "raise", of |-> 0]
Path(n) == [kind |-> "path", of |-> n]

\* every table of what the n sources registered so far do when called
WouldReturn(n) == [1..n -> {"none", "path", "raise"}]

\* source(resource), for the source n under the table `would`
call_source(n, would) ==
    IF would[n] = "path" THEN Path(n)
    ELSE IF would[n] = "raise" THEN Raises
    ELSE NoPath

(***************************************************************************)
(* ResourceResolver.register                                               *)
(***************************************************************************)
\* A variant of register that ignores the priority it is given.
register_default_priority(srcs, source, priority) ==
    prioritylist_add(srcs, source, SourcePriority.local)

\* A variant of the default of register: the lowest priority.
priority_default_lowest == SourcePriority.package

\* def register(self, source, priority=SourcePriority.local): the priority of
\* a call that passes none
priority_default == SourcePriority.local

\* self.sources.add(source, priority)
register(srcs, source, priority) == prioritylist_add(srcs, source, priority)

(***************************************************************************)
(* ResourceResolver.get: the loop over self.sources, then the strict check. *)
(* The result records the sources that were called, in call order.         *)
(***************************************************************************)
\* A variant of the loop that goes on after a match and keeps the last one.
RECURSIVE get_loop_best_match(_, _, _)
get_loop_best_match(order, i, would) ==
    IF i > Len(order)
    THEN [outcome |-> "exhausted", result |-> NoPath, probed |-> << >>]
    ELSE LET source == order[i]
             result == call_source(source, would)
             rest == get_loop_best_match(order, i + 1, would)
         IN  IF result = Raises
             THEN [outcome |-> "raised", result |-> Raises,
                   probed |-> <<source>>]
             ELSE IF result # NoPath /\ rest.outcome = "exhausted"
             THEN [outcome |-> "found", result |-> result,
                   probed |-> <<source>> \o rest.probed]
             ELSE [rest EXCEPT !.probed = <<source>> \o @]

\* for source in self.sources: the first result that is not None is returned
RECURSIVE get_loop(_, _, _)
get_loop(order, i, would) ==
    IF i > Len(order)
    THEN [outcome |-> "exhausted", result |-> NoPath, probed |-> << >>]
    ELSE LET source == order[i]
             result == call_source(source, would)
         IN  IF result = Raises
             THEN [outcome |-> "raised", result |-> Raises,
                   probed |-> <<source>>]
             ELSE IF result # NoPath
             THEN [outcome |-> "found", result |-> result,
                   probed |-> <<source>>]
             ELSE LET rest == get_loop(order, i + 1, would)
                  IN  [rest EXCEPT !.probed = <<source>> \o @]

Reverse(seq) == [i \in 1..Len(seq) |-> seq[Len(seq) + 1 - i]]

\* A variant of get that probes the sources in the reverse order.
get_lowest_first(srcs, would, strict) ==
    LET r == get_loop(Reverse(prioritylist_iter(srcs)), 1, would)
    IN  IF r.outcome = "found"
        THEN [status |-> "returned", value |-> r.result, probed |-> r.probed]
        ELSE IF r.outcome = "raised"
        THEN [status |-> "raised", value |-> Raises, probed |-> r.probed]
        ELSE IF strict
        THEN [status |-> "ResourceError", value |-> NoPath,
              probed |-> r.probed]
        ELSE [status |-> "returned", value |-> NoPath, probed |-> r.probed]

\* A variant of get without the strict check.
get_never_strict(srcs, would, strict) ==
    LET r == get_loop(prioritylist_iter(srcs), 1, would)
    IN  IF r.outcome = "found"
        THEN [status |-> "returned", value |-> r.result, probed |-> r.probed]
        ELSE IF r.outcome = "raised"
        THEN [status |-> "raised", value |-> Raises, probed |-> r.probed]
        ELSE [status |-> "returned", value |-> NoPath, probed |-> r.probed]

get(srcs, would, strict) ==
    LET r == get_loop(prioritylist_iter(srcs), 1, would)
    IN  IF r.outcome = "found"
        THEN [status |-> "returned", value |-> r.result, probed |-> r.probed]
        ELSE IF r.outcome = "raised"
        THEN [status |-> "raised", value |-> Raises, probed |-> r.probed]
        ELSE IF strict
        THEN [status |-> "ResourceError", value |-> NoPath,
              probed |-> r.probed]
        ELSE [status |-> "returned", value |-> NoPath, probed |-> r.probed]

NoGet ==
    [called |-> FALSE, would |-> << >>, strict |-> FALSE,
     status |-> "none", value |-> NoPath, probed |-> << >>]

(***************************************************************************)
(* ResourceResolver.load, step by step.  load.i is the index in the        *)
(* catalog of the getter being loaded.  The counters are per call of load. *)
(***************************************************************************)
Zeros == [i \in 1..Len(Catalog) |-> 0]

NoLoad ==
    [pc |-> "idle", i |-> 0, calls |-> 0, status |-> "none",
     init_calls |-> Zeros, register_calls |-> Zeros,
     register_returned |-> Zeros, appended |-> Zeros, raised_at |-> 0,
     getters_before |-> 0, sources_before |-> 0]

ResolverInit ==
    /\ getters = << >>
    /\ sources = prioritylist
    /\ registered = << >>
    /\ load = NoLoad
    /\ got = NoGet

\* The statements of the loop body of load(), in program order.
\* (a variant with register before initialize, then the body as it is)
load_body_register_first == <<"register", "initialize", "append">>

load_body == <<"initialize", "register", "append">>

\* The position after statement `stmt` of the loop body for getter i: the
\* next statement, the next getter, or the end of load().
AfterStatement(stmt, i) ==
    LET k == CHOOSE n \in 1..Len(load_body) : load_body[n] = stmt
    IN  IF k < Len(load_body) THEN [pc |-> load_body[k + 1], i |-> i]
        ELSE IF i < Len(Catalog) THEN [pc |-> load_body[1], i |-> i + 1]
        ELSE [pc |-> "idle", i |-> i]

\* load() is called: the loop starts at the first getter of the catalog.
LoadCall ==
    /\ load.pc = "idle"
    /\ load.calls < MaxLoads
    /\ load' = [NoLoad EXCEPT !.pc = load_body[1], !.i = 1,
                              !.calls = load.calls + 1,
                              !.status = "running",
                              !.getters_before = Len(getters),
                              !.sources_before = Len(registered)]
    /\ UNCHANGED <<getters, sources, registered, got>>
    /\ UNCHANGED cacheVars
    /\ UNCHANGED apkVars
    /\ UNCHANGED exclusive

\* getter.initialize() is called and returns.
LoadInitialize ==
    /\ load.pc = "initialize"
    /\ LET next == AfterStatement("initialize", load.i)
       IN  load' = [load EXCEPT !.pc = next.pc, !.i = next.i,
                                !.init_calls[load.i] = @ + 1]
    /\ UNCHANGED <<getters, sources, registered, got>>
    /\ UNCHANGED cacheVars
    /\ UNCHANGED apkVars
    /\ UNCHANGED exclusive

\* getter.initialize() is called and raises: nothing in load() catches the
\* exception, which ends the call.  This variant goes on with the next
\* getter instead.
LoadInitializeRaises_Continue ==
    /\ load.pc = "initialize"
    /\ load' = [load EXCEPT !.pc = IF load.i < Len(Catalog)
                                   THEN load_body[1] ELSE "idle",
                            !.i = IF load.i < Len(Catalog)
                                  THEN load.i + 1 ELSE load.i,
                            !.status = IF load.i < Len(Catalog)
                                       THEN "running" ELSE "returned",
                            !.raised_at = load.i,
                            !.init_calls[load.i] = @ + 1]
    /\ UNCHANGED <<getters, sources, registered, got>>
    /\ UNCHANGED cacheVars
    /\ UNCHANGED apkVars
    /\ UNCHANGED exclusive

LoadInitializeRaises ==
    /\ load.pc = "initialize"
    /\ load' = [load EXCEPT !.pc = "idle", !.status = "raised",
                            !.raised_at = load.i,
                            !.init_calls[load.i] = @ + 1]
    /\ UNCHANGED <<getters, sources, registered, got>>
    /\ UNCHANGED cacheVars
    /\ UNCHANGED apkVars
    /\ UNCHANGED exclusive

\* getter.register(self) is called.
LoadRegisterCall ==
    /\ load.pc = "register"
    /\ load' = [load EXCEPT !.pc = "registering",
                            !.register_calls[load.i] = @ + 1]
    /\ UNCHANGED <<getters, sources, registered, got>>
    /\ UNCHANGED cacheVars
    /\ UNCHANGED apkVars
    /\ UNCHANGED exclusive

\* Inside getter.register(self): the getter calls resolver.register.
LoadGetterRegisters(priority) ==
    /\ load.pc = "registering"
    /\ Len(registered) < MaxReg
    /\ sources' = register(sources, Len(registered) + 1, priority)
    /\ registered' = Append(registered, priority)
    /\ UNCHANGED <<getters, load, got>>
    /\ UNCHANGED cacheVars
    /\ UNCHANGED apkVars
    /\ UNCHANGED exclusive

\* getter.register(self) returns.
LoadRegisterReturns ==
    /\ load.pc = "registering"
    /\ LET next == AfterStatement("register", load.i)
       IN  load' = [load EXCEPT !.pc = next.pc, !.i = next.i,
                                !.register_returned[load.i] = @ + 1]
    /\ UNCHANGED <<getters, sources, registered, got>>
    /\ UNCHANGED cacheVars
    /\ UNCHANGED apkVars
    /\ UNCHANGED exclusive

\* getter.register(self) raises: the exception leaves load().
LoadRegisterRaises ==
    /\ load.pc = "registering"
    /\ load' = [load EXCEPT !.pc = "idle", !.status = "raised",
                            !.raised_at = load.i]
    /\ UNCHANGED <<getters, sources, registered, got>>
    /\ UNCHANGED cacheVars
    /\ UNCHANGED apkVars
    /\ UNCHANGED exclusive

\* self.getters.append(getter), then the next getter or the end of load().
LoadAppend ==
    /\ load.pc = "append"
    /\ getters' = Append(getters, Catalog[load.i])
    /\ LET next == AfterStatement("append", load.i)
       IN  load' = [load EXCEPT !.pc = next.pc, !.i = next.i,
                                !.status = IF next.pc = "idle"
                                           THEN "returned" ELSE @,
                                !.appended[load.i] = @ + 1]
    /\ UNCHANGED <<sources, registered, got>>
    /\ UNCHANGED cacheVars
    /\ UNCHANGED apkVars
    /\ UNCHANGED exclusive

\* resolver.register(source, priority), called outside load().
Register(priority) ==
    /\ load.pc = "idle"
    /\ ~got.called
    /\ Len(registered) < MaxReg
    /\ sources' = register(sources, Len(registered) + 1, priority)
    /\ registered' = Append(registered, priority)
    /\ UNCHANGED <<getters, load, got>>
    /\ UNCHANGED cacheVars
    /\ UNCHANGED apkVars
    /\ UNCHANGED exclusive

\* register(source): a call that passes no priority
RegisterDefault == Register(priority_default)

\* A variant of get that forgets its sources when it fails.
Get_ForgetsSources ==
    /\ load.pc = "idle"
    /\ ~got.called
    /\ \E would \in WouldReturn(Len(registered)), strict \in BOOLEAN :
           LET r == get(sources, would, strict)
           IN  /\ got' = [called |-> TRUE, would |-> would, strict |-> strict,
                          status |-> r.status, value |-> r.value,
                          probed |-> r.probed]
               /\ sources' = IF r.status = "ResourceError" THEN prioritylist
                             ELSE sources
    /\ UNCHANGED <<getters, registered, load>>
    /\ UNCHANGED cacheVars
    /\ UNCHANGED apkVars
    /\ UNCHANGED exclusive

\* get(resource, strict) runs to its end: would[n] is what source n returns
\* for the resource.  got holds the call until its caller has the result.
Get ==
    /\ load.pc = "idle"
    /\ ~got.called
    /\ \E would \in WouldReturn(Len(registered)), strict \in BOOLEAN :
           LET r == get(sources, would, strict)
           IN  got' = [called |-> TRUE, would |-> would, strict |-> strict,
                       status |-> r.status, value |-> r.value,
                       probed |-> r.probed]
    /\ UNCHANGED <<getters, sources, registered, load>>
    /\ UNCHANGED cacheVars
    /\ UNCHANGED apkVars
    /\ UNCHANGED exclusive

\* The caller of get() has its result (or its exception).
GetReturns ==
    /\ got.called
    /\ got' = NoGet
    /\ UNCHANGED <<getters, sources, registered, load>>
    /\ UNCHANGED cacheVars
    /\ UNCHANGED apkVars
    /\ UNCHANGED exclusive

(***************************************************************************)
(* Part 2: the cache of apk metadata, ApkInfoCache, and its file.          *)
(***************************************************************************)
\* the cache objects that share the file
Inst == {1, 2}

\* the files metadata is extracted from
ApkPaths == {"a.apk", "b.apk"}

\* A variant of apk_id that is made of the path alone.
apk_id_path_only(path, modified) == <<path, 1>>

\* apk_id = '{}-{}'.format(path, modified)
apk_id(path, modified) == <<path, modified>>

ApkIds == {apk_id(path, 1) : path \in ApkPaths}

\* ApkInfo._pod_serialization_version
pod_serialization_version == 1

(***************************************************************************)
(* ApkInfo: its attributes, and the lazily extracted ones.  "None" is None.*)
(***************************************************************************)
ApkInfoAttrs ==
    {"path", "package", "activity", "label", "version_name", "version_code",
     "native_code", "permissions", "_apk_path", "_activities", "_methods",
     "_pod_version"}

\* ApkInfo(path): the attributes parsed from the apk; activities and methods
\* are not extracted yet.
ApkInfo(path) ==
    [a \in ApkInfoAttrs |->
        CASE a = "path" -> path
          [] a = "_apk_path" -> path
          [] a = "package" -> IF path = "a.apk" THEN "com.a" ELSE "com.b"
          [] a = "activity" -> IF path = "a.apk" THEN ".MainA" ELSE "None"
          [] a = "label" -> IF path = "a.apk" THEN "A" ELSE "B"
          [] a = "version_name" -> IF path = "a.apk" THEN "1.2" ELSE "None"
          [] a = "version_code" -> IF path = "a.apk" THEN "12" ELSE "7"
          [] a = "native_code" -> IF path = "a.apk" THEN "arm64" ELSE "None"
          [] a = "permissions" -> IF path = "a.apk" THEN "INTERNET" ELSE "None"
          [] a = "_activities" -> "None"
          [] a = "_methods" -> "None"
          [] a = "_pod_version" -> pod_serialization_version]

\* the property ApkInfo.activities: extracted from the apk at first use
activities(info) ==
    IF info["_activities"] = "None"
    THEN IF info["_apk_path"] = "a.apk" THEN "a.activities" ELSE "b.activities"
    ELSE info["_activities"]

\* the property ApkInfo.methods: extracted from the apk at first use
methods(info) ==
    IF info["_methods"] = "None"
    THEN IF info["_apk_path"] = "a.apk" THEN "a.methods" ELSE "b.methods"
    ELSE info["_methods"]

\* the ApkInfo object after to_pod forced the extraction
extracted(info) ==
    [info EXCEPT !["_activities"] = activities(info),
                 !["_methods"] = methods(info)]

\* the ApkInfo objects handed to store
ApkInfos == {ApkInfo("a.apk"), extracted(ApkInfo("a.apk")), ApkInfo("b.apk")}

\* ApkInfo.to_pod: Podable.to_pod gives the version, then field by field
to_pod(self) ==
    [k \in ApkInfoAttrs |->
        CASE k = "_pod_version" -> self["_pod_version"]
          [] k = "path" -> self["path"]
          [] k = "package" -> self["package"]
          [] k = "activity" -> self["activity"]
          [] k = "label" -> self["label"]
          [] k = "version_name" -> self["version_name"]
          [] k = "version_code" -> self["version_code"]
          [] k = "native_code" -> self["native_code"]
          [] k = "permissions" -> self["permissions"]
          [] k = "_apk_path" -> self["_apk_path"]
          [] k = "_activities" -> activities(self)
          [] k = "_methods" -> methods(self)]

\* A variant of from_pod that mixes up version_name and version_code.
from_pod_version_swapped(pod) ==
    [a \in ApkInfoAttrs |->
        CASE a = "_pod_version" -> pod_serialization_version
          [] a = "version_name" -> pod["version_code"]
          [] a = "version_code" -> pod["version_name"]
          [] OTHER -> pod[a]]

\* ApkInfo.from_pod: ApkInfo() sets the version, then field by field
from_pod(pod) ==
    [a \in ApkInfoAttrs |->
        CASE a = "_pod_version" -> pod_serialization_version
          [] a = "path" -> pod["path"]
          [] a = "package" -> pod["package"]
          [] a = "activity" -> pod["activity"]
          [] a = "label" -> pod["label"]
          [] a = "version_name" -> pod["version_name"]
          [] a = "version_code" -> pod["version_code"]
          [] a = "native_code" -> pod["native_code"]
          [] a = "permissions" -> pod["permissions"]
          [] a = "_apk_path" -> pod["_apk_path"]
          [] a = "_activities" -> pod["_activities"]
          [] a = "_methods" -> pod["_methods"]]

(***************************************************************************)
(* The table (a dict from apk_id to pod) and the file that holds it.       *)
(***************************************************************************)
EmptyTable == [k \in {} |-> 0]

\* self.cache[apk_id] = pod
Insert(table, id, pod) ==
    [k \in (DOMAIN table) \cup {id} |-> IF k = id THEN pod ELSE table[k]]

\* write_pod / read_pod (wa.utils.serializer): the table as a document of
\* key/value entries, and back.
write_pod(table) == {<<k, table[k]>> : k \in DOMAIN table}

read_pod(doc) ==
    [k \in {e[1] : e \in doc} |-> (CHOOSE e \in doc : e[1] = k)[2]]

NoFile == [state |-> "absent", doc |-> {}]
PartialFile == [state |-> "partial", doc |-> {}]
CompleteFile(doc) == [state |-> "complete", doc |-> doc]

\* A variant of _update_cache that reads the file only the first time.
update_cache_once(c, lm) ==
    IF file.state = "absent" \/ lm # 0
    THEN [cache |-> c, last_modified |-> lm, error |-> FALSE]
    ELSE IF file.state = "partial"
    THEN [cache |-> c, last_modified |-> lm, error |-> TRUE]
    ELSE [cache |-> read_pod(file.doc), last_modified |-> fstat,
          error |-> FALSE]

\* ApkInfoCache._update_cache on (self.cache, self.last_modified): what they
\* become, or an error when the file cannot be parsed.
update_cache(c, lm) ==
    IF file.state = "absent"
    THEN [cache |-> c, last_modified |-> lm, error |-> FALSE]
    ELSE IF lm # fstat
    THEN IF file.state = "partial"
         THEN [cache |-> c, last_modified |-> lm, error |-> TRUE]
         ELSE [cache |-> read_pod(file.doc), last_modified |-> fstat,
               error |-> FALSE]
    ELSE [cache |-> c, last_modified |-> lm, error |-> FALSE]

\* ApkInfoCache.get_info on a synchronized table
get_info(table, key) ==
    IF key \in DOMAIN table
    THEN [status |-> "info", info |-> from_pod(table[key])]
    ELSE [status |-> "None", info |-> ApkInfo("None")]

\* A variant of the check of store that never rejects.
store_rejects_never(table, id, overwrite) == FALSE

\* the check of store: apk_id in self.cache and not overwrite
store_rejects(table, id, overwrite) == id \in DOMAIN table /\ ~overwrite

NoCall ==
    [apk_info |-> ApkInfo("None"), apk_id |-> apk_id("None", 0),
     overwrite |-> FALSE, had_key |-> FALSE, file_before |-> NoFile]

NoRet ==
    [op |-> "none", inst |-> 0, key |-> apk_id("None", 0), status |-> "none",
     info |-> ApkInfo("None"), call |-> NoCall]

CacheInit ==
    /\ file = NoFile
    /\ fstat = 0
    /\ tmp = [i \in Inst |-> NoFile]
    /\ alive = [i \in Inst |-> FALSE]
    /\ cache = [i \in Inst |-> EmptyTable]
    /\ last_modified = [i \in Inst |-> 0]
    /\ pc = [i \in Inst |-> "idle"]
    /\ call = [i \in Inst |-> NoCall]
    /\ ret = NoRet

\* single-threaded use: one operation at a time
Idle == \A i \in Inst : pc[i] = "idle"

\* ApkInfoCache(path): a new cache object on the file
New(i) ==
    /\ Idle
    /\ LET u == update_cache(EmptyTable, 0)
       IN  /\ alive' = [alive EXCEPT ![i] = ~u.error]
           /\ cache' = [cache EXCEPT ![i] = u.cache]
           /\ last_modified' = [last_modified EXCEPT ![i] = u.last_modified]
           /\ ret' = [NoRet EXCEPT !.op = "init", !.inst = i,
                                   !.status = IF u.error THEN "raised"
                                              ELSE "returned"]
    /\ UNCHANGED <<file, fstat, tmp, pc, call>>
    /\ UNCHANGED resolverVars
    /\ UNCHANGED apkVars
    /\ UNCHANGED exclusive

\* get_info(key) on object i; ret.call.had_key records whether the table of
\* the object held the key before self._update_cache()
GetInfo(i, key) ==
    /\ Idle
    /\ alive[i]
    /\ LET u == update_cache(cache[i], last_modified[i])
           r == get_info(u.cache, key)
       IN  /\ cache' = [cache EXCEPT ![i] = u.cache]
           /\ last_modified' = [last_modified EXCEPT ![i] = u.last_modified]
           /\ ret' = [NoRet EXCEPT !.op = "get_info", !.inst = i, !.key = key,
                                   !.status = IF u.error THEN "raised"
                                              ELSE r.status,
                                   !.info = r.info,
                                   !.call = [NoCall EXCEPT !.had_key =
                                                key \in DOMAIN cache[i]]]
    /\ UNCHANGED <<file, fstat, tmp, alive, pc, call>>
    /\ UNCHANGED resolverVars
    /\ UNCHANGED apkVars
    /\ UNCHANGED exclusive

\* The users of store: when they synchronise, a store starts when nothing
\* else runs; when they do not, it may start while a store of the other
\* object runs.
MayStart(i) == IF exclusive THEN Idle ELSE pc[i] = "idle"

\* A variant of the first step of store that leaves out self._update_cache().
StoreUpdateCache_NoSync(i, info, id, overwrite) ==
    /\ MayStart(i)
    /\ alive[i]
    /\ fstat < MaxWrites
    /\ call' = [call EXCEPT ![i] =
                   [apk_info |-> info, apk_id |-> id,
                    overwrite |-> overwrite,
                    had_key |-> id \in DOMAIN cache[i],
                    file_before |-> file]]
    /\ pc' = [pc EXCEPT ![i] = "insert"]
    /\ UNCHANGED <<file, fstat, tmp, alive, cache, last_modified, ret>>
    /\ UNCHANGED resolverVars
    /\ UNCHANGED apkVars
    /\ UNCHANGED exclusive

\* store(apk_info, apk_id, overwrite) on object i begins: self._update_cache()
StoreUpdateCache(i, info, id, overwrite) ==
    /\ MayStart(i)
    /\ alive[i]
    /\ fstat < MaxWrites
    /\ LET u == update_cache(cache[i], last_modified[i])
       IN  /\ ~u.error
           /\ cache' = [cache EXCEPT ![i] = u.cache]
           /\ last_modified' = [last_modified EXCEPT ![i] = u.last_modified]
           /\ call' = [call EXCEPT ![i] =
                          [apk_info |-> info, apk_id |-> id,
                           overwrite |-> overwrite,
                           had_key |-> id \in DOMAIN u.cache,
                           file_before |-> file]]
    /\ pc' = [pc EXCEPT ![i] = "insert"]
    /\ UNCHANGED <<file, fstat, tmp, alive, ret>>
    /\ UNCHANGED resolverVars
    /\ UNCHANGED apkVars
    /\ UNCHANGED exclusive

\* A variant of the raise that comes after the table was written to the file.
StoreRaises_AfterWrite(i) ==
    /\ pc[i] = "insert"
    /\ store_rejects(cache[i], call[i].apk_id, call[i].overwrite)
    /\ file' = CompleteFile(write_pod(cache[i]))
    /\ fstat' = fstat + 1
    /\ pc' = [pc EXCEPT ![i] = "idle"]
    /\ ret' = [NoRet EXCEPT !.op = "store", !.inst = i,
                            !.key = call[i].apk_id, !.status = "ValueError",
                            !.call = call[i]]
    /\ call' = [call EXCEPT ![i] = NoCall]
    /\ UNCHANGED <<tmp, alive, cache, last_modified>>
    /\ UNCHANGED resolverVars
    /\ UNCHANGED apkVars
    /\ UNCHANGED exclusive

\* the check raises ValueError and store ends
StoreRaises(i) ==
    /\ pc[i] = "insert"
    /\ store_rejects(cache[i], call[i].apk_id, call[i].overwrite)
    /\ pc' = [pc EXCEPT ![i] = "idle"]
    /\ ret' = [NoRet EXCEPT !.op = "store", !.inst = i,
                            !.key = call[i].apk_id, !.status = "ValueError",
                            !.call = call[i]]
    /\ call' = [call EXCEPT ![i] = NoCall]
    /\ UNCHANGED <<file, fstat, tmp, alive, cache, last_modified>>
    /\ UNCHANGED resolverVars
    /\ UNCHANGED apkVars
    /\ UNCHANGED exclusive

\* self.cache[apk_id] = apk_info.to_pod()
StoreInsert(i) ==
    /\ pc[i] = "insert"
    /\ ~store_rejects(cache[i], call[i].apk_id, call[i].overwrite)
    /\ cache' = [cache EXCEPT ![i] =
                    Insert(@, call[i].apk_id, to_pod(call[i].apk_info))]
    /\ call' = [call EXCEPT ![i].apk_info = extracted(@)]
    /\ pc' = [pc EXCEPT ![i] = "write"]
    /\ UNCHANGED <<file, fstat, tmp, alive, last_modified, ret>>
    /\ UNCHANGED resolverVars
    /\ UNCHANGED apkVars
    /\ UNCHANGED exclusive

\* This variant of the next step opens self.path itself for writing.
StoreWriteBegins_InPlace(i) ==
    /\ pc[i] = "write"
    /\ file' = PartialFile
    /\ fstat' = fstat + 1
    /\ pc' = [pc EXCEPT ![i] = "writing"]
    /\ UNCHANGED <<tmp, alive, cache, last_modified, call, ret>>
    /\ UNCHANGED resolverVars
    /\ UNCHANGED apkVars
    /\ UNCHANGED exclusive

\* with atomic_write_path(self.path) as at_path: write_pod starts to write
\* the temporary file at_path
StoreWriteBegins(i) ==
    /\ pc[i] = "write"
    /\ tmp' = [tmp EXCEPT ![i] = PartialFile]
    /\ pc' = [pc EXCEPT ![i] = "writing"]
    /\ UNCHANGED <<file, fstat, alive, cache, last_modified, call, ret>>
    /\ UNCHANGED resolverVars
    /\ UNCHANGED apkVars
    /\ UNCHANGED exclusive

\* write_pod(self.cache, at_path) has written the whole table
StoreWriteEnds(i) ==
    /\ pc[i] = "writing"
    /\ tmp' = [tmp EXCEPT ![i] = CompleteFile(write_pod(cache[i]))]
    /\ pc' = [pc EXCEPT ![i] = "rename"]
    /\ UNCHANGED <<file, fstat, alive, cache, last_modified, call, ret>>
    /\ UNCHANGED resolverVars
    /\ UNCHANGED apkVars
    /\ UNCHANGED exclusive

\* atomic_write_path ends: the temporary file replaces the file at path
StoreRename(i) ==
    /\ pc[i] = "rename"
    /\ file' = tmp[i]
    /\ fstat' = fstat + 1
    /\ tmp' = [tmp EXCEPT ![i] = NoFile]
    /\ pc' = [pc EXCEPT ![i] = "stat"]
    /\ UNCHANGED <<alive, cache, last_modified, call, ret>>
    /\ UNCHANGED resolverVars
    /\ UNCHANGED apkVars
    /\ UNCHANGED exclusive

\* A variant of the last step of store that does not take the stat.
StoreStat_NoStat(i) ==
    /\ pc[i] = "stat"
    /\ pc' = [pc EXCEPT ![i] = "idle"]
    /\ ret' = [NoRet EXCEPT !.op = "store", !.inst = i,
                            !.key = call[i].apk_id, !.status = "stored",
                            !.info = call[i].apk_info, !.call = call[i]]
    /\ call' = [call EXCEPT ![i] = NoCall]
    /\ UNCHANGED <<file, fstat, tmp, alive, cache, last_modified>>
    /\ UNCHANGED resolverVars
    /\ UNCHANGED apkVars
    /\ UNCHANGED exclusive

\* self.last_modified = os.stat(self.path), and store returns
StoreStat(i) ==
    /\ pc[i] = "stat"
    /\ last_modified' = [last_modified EXCEPT ![i] = fstat]
    /\ pc' = [pc EXCEPT ![i] = "idle"]
    /\ ret' = [NoRet EXCEPT !.op = "store", !.inst = i,
                            !.key = call[i].apk_id, !.status = "stored",
                            !.info = call[i].apk_info, !.call = call[i]]
    /\ call' = [call EXCEPT ![i] = NoCall]
    /\ UNCHANGED <<file, fstat, tmp, alive, cache>>
    /\ UNCHANGED resolverVars
    /\ UNCHANGED apkVars
    /\ UNCHANGED exclusive

\* The process dies: the cache objects and a running store are gone, the
\* file at path stays as it is, a temporary file is never looked at again.
\* ret keeps where the running store was.
Crash ==
    /\ \E i \in Inst : alive[i]
    /\ alive' = [i \in Inst |-> FALSE]
    /\ cache' = [i \in Inst |-> EmptyTable]
    /\ last_modified' = [i \in Inst |-> 0]
    /\ pc' = [i \in Inst |-> "idle"]
    /\ tmp' = [i \in Inst |-> NoFile]
    /\ call' = [i \in Inst |-> NoCall]
    /\ ret' = IF Idle
              THEN [NoRet EXCEPT !.op = "crash", !.status = "idle"]
              ELSE LET i == CHOOSE j \in Inst : pc[j] # "idle"
                   IN  [NoRet EXCEPT !.op = "crash", !.inst = i,
                                     !.status = pc[i], !.call = call[i]]
    /\ UNCHANGED <<file, fstat>>
    /\ UNCHANGED resolverVars
    /\ UNCHANGED apkVars
    /\ UNCHANGED exclusive

(***************************************************************************)
(* Part 3: get_cacheable_apk_info, the matchers and ApkFile.match.         *)
(***************************************************************************)
\* st_mtime of an apk is at most this
MaxMtime == 2

\* apk_info_cache = ApkInfoCache(): the cache object of the module
apk_info_cache == 1

\* the paths get_cacheable_apk_info is called with; "None" is None
CandidatePaths == ApkPaths \cup {"None"}

\* A variant of get_cacheable_apk_info that extracts and does not store.
GetCacheableApkInfo_NoStore(path) ==
    /\ Idle
    /\ alive[apk_info_cache]
    /\ path # "None"
    /\ apk_mtime[path] # 0
    /\ ret' = [NoRet EXCEPT !.op = "get_cacheable_apk_info",
                            !.inst = apk_info_cache,
                            !.key = apk_id(path, apk_mtime[path]),
                            !.status = "miss",
                            !.info = ApkInfo(path),
                            !.call = [NoCall EXCEPT !.file_before = file]]
    /\ UNCHANGED <<file, fstat, tmp, alive, cache, last_modified, pc, call>>
    /\ UNCHANGED <<apk_mtime, matching>>
    /\ UNCHANGED resolverVars
    /\ UNCHANGED exclusive

\* get_cacheable_apk_info(path), from the call to the return or the raise
GetCacheableApkInfo(path) ==
    /\ Idle
    /\ alive[apk_info_cache]
    /\ LET c == apk_info_cache
           r0 == [NoRet EXCEPT !.op = "get_cacheable_apk_info", !.inst = c]
       IN
       IF path = "None"
       THEN \* if not path: return None
            /\ ret' = [r0 EXCEPT !.status = "None"]
            /\ UNCHANGED <<file, fstat, cache, last_modified>>
       ELSE IF apk_mtime[path] = 0
       THEN \* stat = os.stat(path) raises: there is no file at path
            /\ ret' = [r0 EXCEPT !.key = apk_id(path, 0),
                                 !.status = "OSError"]
            /\ UNCHANGED <<file, fstat, cache, last_modified>>
       ELSE LET id == apk_id(path, apk_mtime[path])
                u == update_cache(cache[c], last_modified[c])
                r == get_info(u.cache, id)
                info == ApkInfo(path)
                table == Insert(u.cache, id, to_pod(info))
                args == [NoCall EXCEPT !.apk_id = id,
                                       !.had_key = id \in DOMAIN u.cache,
                                       !.file_before = file]
            IN
            IF u.error
            THEN \* get_info raises out of _update_cache
                 /\ ret' = [r0 EXCEPT !.key = id, !.status = "raised"]
                 /\ UNCHANGED <<file, fstat, cache, last_modified>>
            ELSE IF r.status = "info"
            THEN \* if info: 'Using ApkInfo from cache'
                 /\ ret' = [r0 EXCEPT !.key = id, !.status = "hit",
                                      !.info = r.info, !.call = args]
                 /\ cache' = [cache EXCEPT ![c] = u.cache]
                 /\ last_modified' =
                        [last_modified EXCEPT ![c] = u.last_modified]
                 /\ UNCHANGED <<file, fstat>>
            ELSE IF store_rejects(u.cache, id, TRUE)
            THEN /\ ret' = [r0 EXCEPT !.key = id, !.status = "ValueError"]
                 /\ cache' = [cache EXCEPT ![c] = u.cache]
                 /\ last_modified' =
                        [last_modified EXCEPT ![c] = u.last_modified]
                 /\ UNCHANGED <<file, fstat>>
            ELSE \* info = ApkInfo(path)
                 \* apk_info_cache.store(info, apk_id, overwrite=True)
                 /\ ret' = [r0 EXCEPT !.key = id, !.status = "miss",
                                      !.info = extracted(info),
                                      !.call = [args EXCEPT
                                                   !.apk_info = info,
                                                   !.overwrite = TRUE]]
                 /\ cache' = [cache EXCEPT ![c] = table]
                 /\ file' = CompleteFile(write_pod(table))
                 /\ fstat' = fstat + 1
                 /\ last_modified' = [last_modified EXCEPT ![c] = fstat + 1]
    /\ UNCHANGED <<tmp, alive, pc, call>>
    /\ UNCHANGED <<apk_mtime, matching>>
    /\ UNCHANGED resolverVars
    /\ UNCHANGED exclusive

\* An apk is written at path, or written again: its st_mtime changes.
ApkWritten(path) ==
    /\ apk_mtime[path] < MaxMtime
    /\ apk_mtime' = [apk_mtime EXCEPT ![path] = @ + 1]
    /\ UNCHANGED matching
    /\ UNCHANGED resolverVars
    /\ UNCHANGED exclusive
    /\ UNCHANGED cacheVars

(***************************************************************************)
(* Strings.  A Python str is modelled as the sequence of its characters,   *)
(* so that it can be split and its digits read; <<"None">> is None.        *)
(***************************************************************************)
\* a generated version has at most this many segments
MaxSegments == 2

None == <<"None">>

Digit == <<"0", "1", "2", "3", "4", "5", "6", "7", "8", "9">>

\* str(n) of a natural number
RECURSIVE str(_)
str(n) == IF n < 10 THEN <<Digit[n + 1]>>
          ELSE Append(str(n \div 10), Digit[(n % 10) + 1])

\* '.'.join(str(n) for n in segs)
RECURSIVE Dotted(_)
Dotted(segs) ==
    IF Len(segs) = 0 THEN <<>>
    ELSE IF Len(segs) = 1 THEN str(segs[1])
    ELSE str(segs[1]) \o <<".">> \o Dotted(Tail(segs))

\* v.split('.')
RECURSIVE split(_)
split(v) ==
    IF \E i \in 1..Len(v) : v[i] = "."
    THEN LET i == CHOOSE k \in 1..Len(v) :
                      v[k] = "." /\ \A j \in 1..(k - 1) : v[j] # "."
         IN  <<SubSeq(v, 1, i - 1)>> \o split(SubSeq(v, i + 1, Len(v)))
    ELSE <<v>>

isdigit(seg) ==
    Len(seg) > 0 /\ \A i \in 1..Len(seg) : \E d \in 1..10 : seg[i] = Digit[d]

\* int(seg) of a string of digits
RECURSIVE int(_)
int(seg) ==
    IF Len(seg) = 0 THEN 0
    ELSE 10 * int(SubSeq(seg, 1, Len(seg) - 1))
         + ((CHOOSE d \in 1..10 : seg[Len(seg)] = Digit[d]) - 1)

\* version_tuple (wa.utils.types): the segments of the version between the
\* delimiters, the numeric ones as numbers; the empty tuple for None and
\* for the empty string.
version_tuple(v) ==
    IF v = None \/ v = <<>> THEN <<>>
    ELSE LET segs == split([i \in 1..Len(v) |->
                               IF v[i] = "-" THEN "." ELSE v[i]])
         IN  [i \in 1..Len(segs) |->
                 IF isdigit(segs[i]) THEN int(segs[i]) ELSE segs[i]]

\* a < b of two Python tuples of numbers
RECURSIVE tuple_lt(_, _)
tuple_lt(a, b) ==
    IF Len(a) = 0 THEN Len(b) > 0
    ELSE IF Len(b) = 0 THEN FALSE
    ELSE IF a[1] = b[1] THEN tuple_lt(Tail(a), Tail(b))
    ELSE a[1] < b[1]

\* the truth value of a str or None: empty and None are false
truthy(s) == s # None /\ s # <<>>

\* A variant of loose_version_matching without the check of the lengths.
loose_version_matching_no_len(config_version, apk_version) ==
    LET config_version_tuple == version_tuple(config_version)
        apk_version_tuple == version_tuple(apk_version)
    IN  \A i \in 1..Len(config_version_tuple) :
            i \in 1..Len(apk_version_tuple) =>
                config_version_tuple[i] = apk_version_tuple[i]

\* loose_version_matching(config_version, apk_version)
loose_version_matching(config_version, apk_version) ==
    LET config_version_tuple == version_tuple(config_version)
        apk_version_tuple == version_tuple(apk_version)
    IN  IF Len(apk_version_tuple) < Len(config_version_tuple)
        THEN FALSE
        ELSE \A i \in 1..Len(config_version_tuple) :
                 config_version_tuple[i] = apk_version_tuple[i]

\* A variant of range_version_matching that compares the version strings
\* segment by segment as text.
range_version_matching_text(apk_version, min_version, max_version) ==
    LET digits(v) == [i \in 1..Len(split(v)) |-> 
                         IF Len(split(v)[i]) = 0 THEN 0
                         ELSE CHOOSE d \in 1..10 : split(v)[i][1] = Digit[d]]
    IN  IF ~truthy(apk_version) THEN FALSE
        ELSE IF truthy(max_version)
                /\ tuple_lt(digits(max_version), digits(apk_version))
        THEN FALSE
        ELSE IF truthy(min_version)
                /\ tuple_lt(digits(apk_version), digits(min_version))
        THEN FALSE
        ELSE TRUE

\* A variant of range_version_matching that ignores max_version.
range_version_matching_no_max(apk_version, min_version, max_version) ==
    IF ~truthy(apk_version) THEN FALSE
    ELSE IF truthy(min_version)
            /\ tuple_lt(version_tuple(apk_version), version_tuple(min_version))
    THEN FALSE
    ELSE TRUE

\* range_version_matching(apk_version, min_version, max_version)
range_version_matching(apk_version, min_version, max_version) ==
    IF ~truthy(apk_version) THEN FALSE
    ELSE LET apk_version_tuple == version_tuple(apk_version)
         IN  IF truthy(max_version)
                /\ tuple_lt(version_tuple(max_version), apk_version_tuple)
             THEN FALSE
             ELSE IF truthy(min_version)
                     /\ tuple_lt(apk_version_tuple, version_tuple(min_version))
             THEN FALSE
             ELSE TRUE

(***************************************************************************)
(* The inputs of the matchers.                                             *)
(***************************************************************************)
\* the numbers a segment of a generated version is drawn from
Segments == {1, 2, 7, 9, 10}

\* the version strings of n segments
SegmentTuples(n) == [1..n -> Segments]

\* the versions a resource asks for
RequestedVersions ==
    {Dotted(<<1, 2>>), Dotted(<<1, 2, 7>>), Dotted(<<1, 3>>),
     Dotted(<<1, 9>>), Dotted(<<1, 10>>), Dotted(<<10>>)}

\* the version names an apk may carry: every version of up to MaxSegments
\* segments, the versions asked for, the empty string and None
VersionNames ==
    {Dotted(segs) : segs \in UNION {SegmentTuples(n) : n \in 1..MaxSegments}}
        \cup RequestedVersions \cup {<<>>, None}

\* the candidate a matcher is given: where its path points (no path at all,
\* a path with no file, an apk), the name of the file and what the apk
\* carries
NoApk ==
    [file |-> "None", filename |-> <<>>, version_name |-> None,
     version_code |-> None, package |-> None, native_code |-> <<>>]

\* the parameters of an ApkFile
NoApkFile ==
    [version |-> [kind |-> "None", value |-> <<>>],
     min_version |-> None, max_version |-> None, variant |-> None,
     package |-> None, supported_abi |-> [kind |-> "None", value |-> <<>>],
     exact_abi |-> FALSE, uiauto |-> FALSE]

NoMatching ==
    [fn |-> "none", apk |-> NoApk, self |-> NoApkFile, result |-> "none"]

\* a matcher is called only after the last call was looked at
NotMatching == matching.fn = "none"

Bool(b) == IF b THEN "True" ELSE "False"

\* loose_version_matching is called
LooseVersionMatching(config_version, apk_version) ==
    /\ NotMatching
    /\ matching' =
          [NoMatching EXCEPT
              !.fn = "loose_version_matching",
              !.self.version = [kind |-> "str", value |-> config_version],
              !.apk.version_name = apk_version,
              !.result = Bool(loose_version_matching(config_version,
                                                     apk_version))]
    /\ UNCHANGED apk_mtime
    /\ UNCHANGED resolverVars
    /\ UNCHANGED exclusive
    /\ UNCHANGED cacheVars

\* range_version_matching is called
RangeVersionMatching(apk_version, min_version, max_version) ==
    /\ NotMatching
    /\ matching' =
          [NoMatching EXCEPT
              !.fn = "range_version_matching",
              !.self.min_version = min_version,
              !.self.max_version = max_version,
              !.apk.version_name = apk_version,
              !.result = Bool(range_version_matching(apk_version, min_version,
                                                     max_version))]
    /\ UNCHANGED apk_mtime
    /\ UNCHANGED resolverVars
    /\ UNCHANGED exclusive
    /\ UNCHANGED cacheVars

\* the caller has looked at the result
MatchingReturns ==
    /\ ~NotMatching
    /\ matching' = NoMatching
    /\ UNCHANGED apk_mtime
    /\ UNCHANGED resolverVars
    /\ UNCHANGED exclusive
    /\ UNCHANGED cacheVars

(***************************************************************************)
(* The matchers that read the metadata of the candidate.  Each returns     *)
(* "True" or "False", or the name of the exception it raises.              *)
(***************************************************************************)
\* get_cacheable_apk_info(path) as the matchers see it: None for no path,
\* OSError out of os.stat for a path with no file, else the ApkInfo
get_cacheable_apk_info(apk) ==
    [status |-> CASE apk.file = "None" -> "None"
                  [] apk.file = "missing" -> "OSError"
                  [] OTHER -> "info",
     apk |-> apk]

\* list_or_string (wa.utils.types): a one-element list for a string
list_or_string(value) ==
    IF value.kind = "str" THEN <<value.value>> ELSE value.value

\* the truth value of a parameter that is None, a str or a list
given(value) == value.kind # "None" /\ value.value # <<>>

\* x in a list
is_in(x, list) == \E i \in 1..Len(list) : list[i] = x

\* s contains part: the elements of part, in a row
contains(s, part) ==
    \E off \in 0..(Len(s) - Len(part)) :
        \A i \in 1..Len(part) : s[off + i] = part[i]

\* for v in version_: ... return True, else return False
RECURSIVE apk_version_loop(_, _)
apk_version_loop(version_, info) ==
    IF Len(version_) = 0 THEN FALSE
    ELSE LET v == Head(version_)
         IN  IF /\ info.status = "info"
                /\ \/ v = info.apk.version_name
                   \/ v = info.apk.version_code
                   \/ loose_version_matching(v, info.apk.version_name)
             THEN TRUE
             ELSE apk_version_loop(Tail(version_), info)

\* apk_version_matches(path, version)
apk_version_matches(apk, version) ==
    LET version_ == list_or_string(version)
        info == get_cacheable_apk_info(apk)
    IN  IF info.status = "OSError" THEN "OSError"
        ELSE Bool(apk_version_loop(version_, info))

\* apk_version_matches_range(path, min_version, max_version)
apk_version_matches_range(apk, min_version, max_version) ==
    LET info == get_cacheable_apk_info(apk)
    IN  IF info.status = "OSError" THEN "OSError"
        ELSE Bool(range_version_matching(
                      IF info.status = "info" THEN info.apk.version_name
                      ELSE <<>>,
                      min_version, max_version))

\* re.search(pattern, filename) for patterns of plain characters and '.';
\* a pattern with an unclosed '(' does not compile
re_search(pattern, filename) ==
    IF is_in("(", pattern) THEN "re.error"
    ELSE Bool(\E off \in 0..(Len(filename) - Len(pattern)) :
                 \A i \in 1..Len(pattern) :
                     pattern[i] = "." \/ pattern[i] = filename[off + i])

\* file_name_matches(path, pattern)
file_name_matches(apk, pattern) ==
    IF apk.file = "None" THEN "TypeError"
    ELSE IF contains(apk.filename, pattern) THEN "True"
    ELSE re_search(pattern, apk.filename)

\* 'com.arm.wa.uiauto', as the names between the dots
uiauto_marker == <<"com", "arm", "wa", "uiauto">>

\* A variant of uiauto_test_matches that accepts the apks with the marker,
\* whatever the flag.
uiauto_test_matches_marker(apk, uiauto) ==
    LET info == get_cacheable_apk_info(apk)
    IN  IF info.status = "OSError" THEN "OSError"
        ELSE IF info.status = "None" THEN "False"
        ELSE Bool(contains(IF truthy(info.apk.package)
                           THEN info.apk.package ELSE <<>>,
                           uiauto_marker))

\* uiauto_test_matches(path, uiauto)
uiauto_test_matches(apk, uiauto) ==
    LET info == get_cacheable_apk_info(apk)
    IN  IF info.status = "OSError" THEN "OSError"
        ELSE IF info.status = "None" THEN "False"
        ELSE Bool(uiauto = contains(IF truthy(info.apk.package)
                                    THEN info.apk.package ELSE <<>>,
                                    uiauto_marker))

\* package_name_matches(path, package)
package_name_matches(apk, package) ==
    LET info == get_cacheable_apk_info(apk)
    IN  IF info.status = "OSError" THEN "OSError"
        ELSE IF info.status = "None" THEN "False"
        ELSE Bool(info.apk.package = package)

\* A variant of apk_abi_matches whose exact mode accepts any of the ABIs.
apk_abi_matches_any(apk, supported_abi, exact_abi) ==
    LET supported_abi_ == list_or_string(supported_abi)
        info == get_cacheable_apk_info(apk)
    IN  IF info.status = "OSError" THEN "OSError"
        ELSE IF info.status = "None" THEN "False"
        ELSE IF Len(info.apk.native_code) = 0 THEN "True"
        ELSE Bool(\E i \in 1..Len(supported_abi_) :
                     is_in(supported_abi_[i], info.apk.native_code))

\* apk_abi_matches(path, supported_abi, exact_abi)
apk_abi_matches(apk, supported_abi, exact_abi) ==
    LET supported_abi_ == list_or_string(supported_abi)
        info == get_cacheable_apk_info(apk)
    IN  IF info.status = "OSError" THEN "OSError"
        ELSE IF info.status = "None" THEN "False"
        ELSE IF Len(info.apk.native_code) = 0 THEN "True"
        ELSE IF exact_abi
        THEN IF Len(supported_abi_) = 0 THEN "IndexError"
             ELSE Bool(is_in(supported_abi_[1], info.apk.native_code))
        ELSE Bool(\E i \in 1..Len(supported_abi_) :
                     is_in(supported_abi_[i], info.apk.native_code))

(***************************************************************************)
(* ApkFile.match                                                           *)
(***************************************************************************)
raised(result) == result \notin {"True", "False"}

\* what a sequence of evaluations comes to: the exception of the first one
\* that raises, else the conjunction
RECURSIVE conjunction(_)
conjunction(results) ==
    IF Len(results) = 0 THEN "True"
    ELSE IF raised(Head(results)) THEN Head(results)
    ELSE LET rest == conjunction(Tail(results))
         IN  IF raised(rest) THEN rest
             ELSE Bool(Head(results) = "True" /\ rest = "True")

\* the calls of matchers that ApkFile.match makes, in its order
match_calls(self, apk) ==
    <<uiauto_test_matches(apk, self.uiauto)>>
    \o (IF given(self.version)
        THEN <<apk_version_matches(apk, self.version)>> ELSE <<>>)
    \o (IF truthy(self.max_version) \/ truthy(self.min_version)
        THEN <<apk_version_matches_range(apk, self.min_version,
                                         self.max_version)>>
        ELSE <<>>)
    \o (IF truthy(self.variant)
        THEN <<file_name_matches(apk, self.variant)>> ELSE <<>>)
    \o (IF truthy(self.package)
        THEN <<package_name_matches(apk, self.package)>> ELSE <<>>)
    \o (IF given(self.supported_abi)
        THEN <<apk_abi_matches(apk, self.supported_abi, self.exact_abi)>>
        ELSE <<>>)

\* A variant of ApkFile.match that asks uiauto_test_matches only when the
\* uiauto parameter is set.
match_uiauto_if_set(self, apk) ==
    conjunction(IF self.uiauto THEN match_calls(self, apk)
                ELSE Tail(match_calls(self, apk)))

\* ApkFile.match(path)
match(self, apk) == conjunction(match_calls(self, apk))

(***************************************************************************)
(* The candidates and parameters the matchers are called with.             *)
(***************************************************************************)
FileNames == {<<"a", "1", ".", "a", "p", "k">>, <<"b", ".", "a", "p", "k">>}

\* variants: a plain part of a name, a regular expression, and one that
\* does not compile
Variants == {<<"a", "1">>, <<"a", ".", ".">>, <<"(">>}

Packages ==
    {None, <<"com", "a">>, <<"com", "arm", "wa", "uiauto", "a">>}

\* the names of ABIs, each a string
arm64 == <<"arm64-v8a">>
armeabi == <<"armeabi-v7a">>
x86 == <<"x86">>
x86_64 == <<"x86_64">>

NativeCodes == {<<>>, <<arm64>>, <<armeabi, x86>>}

VersionCodes == {None, Dotted(<<10>>)}

Str(s) == [kind |-> "str", value |-> s]
List(l) == [kind |-> "list", value |-> l]

\* version as a string or as a list of strings
VersionParams ==
    {Str(v) : v \in RequestedVersions \cup {<<>>}}
        \cup {List(<<>>)}
        \cup {List(<<v>>) : v \in {Dotted(<<1, 2>>), Dotted(<<10>>)}}
        \cup {List(<<v, w>>) :
                 v, w \in {Dotted(<<1, 2>>), Dotted(<<1, 3>>), Dotted(<<10>>)}}

AbiParams ==
    {Str(arm64), List(<<>>), List(<<x86>>),
     List(<<x86_64, arm64>>), List(<<arm64, x86>>)}

\* candidates with no path and with no file behind the path
NoFileApks == {NoApk, [NoApk EXCEPT !.file = "missing",
                                    !.filename = <<"b", ".", "a", "p", "k">>]}

\* an apk at the path
Apk(filename, version_name, version_code, package, native_code) ==
    [file |-> "apk", filename |-> filename, version_name |-> version_name,
     version_code |-> version_code, package |-> package,
     native_code |-> native_code]

Called(fn, self, apk, result) ==
    /\ NotMatching
    /\ matching' = [fn |-> fn, apk |-> apk, self |-> self, result |-> result]
    /\ UNCHANGED apk_mtime
    /\ UNCHANGED resolverVars
    /\ UNCHANGED exclusive
    /\ UNCHANGED cacheVars

\* apk_version_matches is called
ApkVersionMatches(apk, version) ==
    Called("apk_version_matches", [NoApkFile EXCEPT !.version = version],
           apk, apk_version_matches(apk, version))

\* apk_version_matches_range is called
ApkVersionMatchesRange(apk, min_version, max_version) ==
    Called("apk_version_matches_range",
           [NoApkFile EXCEPT !.min_version = min_version,
                             !.max_version = max_version],
           apk, apk_version_matches_range(apk, min_version, max_version))

\* file_name_matches is called
FileNameMatches(apk, pattern) ==
    Called("file_name_matches", [NoApkFile EXCEPT !.variant = pattern],
           apk, file_name_matches(apk, pattern))

\* uiauto_test_matches is called
UiautoTestMatches(apk, uiauto) ==
    Called("uiauto_test_matches", [NoApkFile EXCEPT !.uiauto = uiauto],
           apk, uiauto_test_matches(apk, uiauto))

\* package_name_matches is called
PackageNameMatches(apk, package) ==
    Called("package_name_matches", [NoApkFile EXCEPT !.package = package],
           apk, package_name_matches(apk, package))

\* apk_abi_matches is called
ApkAbiMatches(apk, supported_abi, exact_abi) ==
    Called("apk_abi_matches",
           [NoApkFile EXCEPT !.supported_abi = supported_abi,
                             !.exact_abi = exact_abi],
           apk, apk_abi_matches(apk, supported_abi, exact_abi))

\* ApkFile(...).match(path) is called
Match(self, apk) == Called("match", self, apk, match(self, apk))

(***************************************************************************)
(* Part 4: the resource kinds and their match_path.  A path is a string,   *)
(* a sequence of characters; "/" separates directories.                    *)
(***************************************************************************)
\* a name has at most this many parts between dots
MaxParts == 3

\* the index of the last c in s, 0 when there is none
rfind(s, c) ==
    IF \E i \in 1..Len(s) : s[i] = c
    THEN CHOOSE i \in 1..Len(s) : s[i] = c /\ \A j \in (i + 1)..Len(s) : s[j] # c
    ELSE 0

\* os.path.basename(path)
basename(path) == SubSeq(path, rfind(path, "/") + 1, Len(path))

\* os.path.splitext(path): the extension starts at the last dot of the file
\* name, and dots the file name begins with do not start one
splitext(path) ==
    LET sepIndex == rfind(path, "/")
        dotIndex == rfind(path, ".")
    IN  IF /\ dotIndex > sepIndex
           /\ \E filenameIndex \in (sepIndex + 1)..(dotIndex - 1) :
                  path[filenameIndex] # "."
        THEN <<SubSeq(path, 1, dotIndex - 1), SubSeq(path, dotIndex, Len(path))>>
        ELSE <<path, <<>>>>

\* str.lower(), on the letters that occur
lower(s) ==
    [i \in 1..Len(s) |->
        CASE s[i] = "A" -> "a"
          [] s[i] = "P" -> "p"
          [] s[i] = "K" -> "k"
          [] OTHER -> s[i]]

\* a resource: its kind and the attributes its __init__ sets
Resource ==
    [kind |-> "None", path |-> None, abi |-> None, filename |-> None,
     stage |-> None, target |-> None]

File(path) == [Resource EXCEPT !.kind = "file", !.path = path]

Executable(abi, filename) ==
    [Resource EXCEPT !.kind = "executable", !.abi = abi,
                     !.filename = filename]

ReventFile(stage, target) ==
    [Resource EXCEPT !.kind = "revent", !.stage = stage, !.target = target]

JarFile == [Resource EXCEPT !.kind = "jar"]

ApkFile == [Resource EXCEPT !.kind = "apk"]

\* File.match_path
File_match_path(self, path) == self.path = path

\* Executable.match_path
Executable_match_path(self, path) == self.filename = basename(path)

\* A variant of ReventFile.match_path that looks at the stage alone.
ReventFile_match_path_stage_only(self, path) ==
    LET filename == basename(path)
        parts == split(filename)
    IN  IF Len(parts) > 2
        THEN parts[2] = self.stage
        ELSE parts[1] = self.stage

\* ReventFile.match_path
ReventFile_match_path(self, path) ==
    LET filename == basename(path)
        parts == split(filename)
    IN  IF Len(parts) > 2
        THEN parts[1] = self.target /\ parts[2] = self.stage
        ELSE parts[1] = self.stage

\* JarFile.match_path
JarFile_match_path(self, path) == TRUE

\* A variant of ApkFile.match_path that compares the extension as it is.
ApkFile_match_path_as_written(self, path) ==
    LET ext == splitext(path)[2]
    IN  ext = <<".", "a", "p", "k">>

\* ApkFile.match_path
ApkFile_match_path(self, path) ==
    LET ext == lower(splitext(path)[2])
    IN  ext = <<".", "a", "p", "k">>

\* self.match_path(path), by the class of self
match_path(self, path) ==
    CASE self.kind = "file" -> File_match_path(self, path)
      [] self.kind = "executable" -> Executable_match_path(self, path)
      [] self.kind = "revent" -> ReventFile_match_path(self, path)
      [] self.kind = "jar" -> JarFile_match_path(self, path)
      [] self.kind = "apk" -> ApkFile_match_path(self, path)

\* Resource.match, which File, Executable, ReventFile and JarFile inherit
Resource_match(self, path) == match_path(self, path)

(***************************************************************************)
(* The inputs of match_path.                                               *)
(***************************************************************************)
\* the parts a file name is made of; one of them is empty
Parts == {<<"t">>, <<"s">>, <<"x", "y">>, <<>>}

\* '.'.join(parts)
RECURSIVE join(_)
join(parts) ==
    IF Len(parts) = 0 THEN <<>>
    ELSE IF Len(parts) = 1 THEN parts[1]
    ELSE parts[1] \o <<".">> \o join(Tail(parts))

\* file names of up to MaxParts parts
PartNames ==
    {join(parts) : parts \in UNION {[1..n -> Parts] : n \in 1..MaxParts}}

\* file names with and without the extension of an apk
ApkNames ==
    {<<"a", ".", "a", "p", "k">>, <<"a", ".", "A", "P", "K">>,
     <<"a", ".", "A", "p", "k">>, <<"a", ".", "a", "p", "k", "s">>,
     <<"a", ".", "a", "p", "k", ".", "b">>, <<"a", ".", "b", ".", "a", "p", "k">>,
     <<".", "a", "p", "k">>, <<"a", "p", "k">>, <<"a", "a", "p", "k">>,
     <<".", ".", "a", "p", "k">>, <<"a">>}

\* the directories: none, one, and one whose name has dots
Dirs == {<<>>, <<"d", "/">>, <<"t", ".", "s", ".", "a", "p", "k", "/">>}

PathsOf(names) == {dir \o name : dir \in Dirs, name \in names}

Stages == {<<"s">>, <<"x", "y">>}

Targets == {None, <<"t">>, <<>>}

\* the paths File resources are made with
FilePaths == PathsOf({<<"t">>, <<"a", ".", "a", "p", "k">>})

\* the file names Executable resources are made with
ExecutableNames == {<<"t">>, <<"t", ".", "s">>, <<"a", ".", "a", "p", "k">>}

\* self.match(path) or self.match_path(path) is called
CalledPath(fn, self, path, result) ==
    /\ NotMatching
    /\ matching' = [fn |-> fn, self |-> self, path |-> path,
                    result |-> Bool(result)]
    /\ UNCHANGED apk_mtime
    /\ UNCHANGED resolverVars
    /\ UNCHANGED exclusive
    /\ UNCHANGED cacheVars

\* match(path) of a File, an Executable, a ReventFile or a JarFile
ResourceMatch(self, path) ==
    CalledPath("match", self, path, Resource_match(self, path))

\* match_path(path) of a ReventFile
ReventFileMatchPath(self, path) ==
    CalledPath("match_path", self, path, ReventFile_match_path(self, path))

\* match_path(path) of an ApkFile
ApkFileMatchPath(self, path) ==
    CalledPath("match_path", self, path, ApkFile_match_path(self, path))

ApkInit ==
    /\ apk_mtime = [path \in ApkPaths |-> 0]
    /\ matching = NoMatching

vars ==
    <<getters, sources, registered, load, got,
      file, fstat, tmp, alive, cache, last_modified, pc, call, ret,
      apk_mtime, matching, exclusive>>

Init == ResolverInit /\ CacheInit /\ ApkInit /\ exclusive = TRUE

\* The resolver in use: sources are registered and resources resolved.
Next ==
    \/ \E priority \in Priorities : Register(priority)
    \/ RegisterDefault
    \/ Get
    \/ GetReturns

Spec == Init /\ [][Next]_vars

\* The resolver being loaded: load() step by step.
NextLoad ==
    \/ LoadCall
    \/ LoadInitialize
    \/ LoadInitializeRaises
    \/ LoadRegisterCall
    \/ \E priority \in Priorities : LoadGetterRegisters(priority)
    \/ LoadRegisterReturns
    \/ LoadRegisterRaises
    \/ LoadAppend

SpecLoad == Init /\ [][NextLoad]_vars

\* The cache used by one thread at a time, in a process that may die.
NextCache ==
    \/ \E i \in Inst : New(i)
    \/ \E i \in Inst, key \in ApkIds : GetInfo(i, key)
    \/ \E i \in Inst, info \in ApkInfos, id \in ApkIds,
          overwrite \in BOOLEAN : StoreUpdateCache(i, info, id, overwrite)
    \/ \E i \in Inst : StoreRaises(i)
    \/ \E i \in Inst : StoreInsert(i)
    \/ \E i \in Inst : StoreWriteBegins(i)
    \/ \E i \in Inst : StoreWriteEnds(i)
    \/ \E i \in Inst : StoreRename(i)
    \/ \E i \in Inst : StoreStat(i)
    \/ Crash

SpecCache == Init /\ [][NextCache]_vars

\* get_cacheable_apk_info in use: the module is imported, apks are written,
\* their metadata is asked for, and the process may end and start again.
NextApkInfo ==
    \/ New(apk_info_cache)
    \/ \E path \in CandidatePaths : GetCacheableApkInfo(path)
    \/ \E path \in ApkPaths : ApkWritten(path)
    \/ Crash

SpecApkInfo == Init /\ [][NextApkInfo]_vars

\* the apks the matchers of versions are called on
VersionApks ==
    NoFileApks \cup
    {Apk(<<"b", ".", "a", "p", "k">>, version_name, version_code, None, <<>>) :
        version_name \in VersionNames, version_code \in VersionCodes}

\* the apks the other matchers and ApkFile.match are called on
Apks ==
    NoFileApks \cup
    {Apk(filename, version_name, Dotted(<<10>>), package, native_code) :
        filename \in FileNames,
        version_name \in {None, Dotted(<<1, 2, 7>>), Dotted(<<1, 10>>)},
        package \in Packages, native_code \in {<<>>, <<arm64>>}}

\* the ApkFile resources match is called on
ApkFiles ==
    {[version |-> version, min_version |-> min_version,
      max_version |-> max_version, variant |-> variant,
      package |-> package, supported_abi |-> supported_abi,
      exact_abi |-> exact_abi, uiauto |-> uiauto] :
        version \in {NoApkFile.version, Str(Dotted(<<1, 2>>))},
        min_version \in {None, Dotted(<<1, 9>>)},
        max_version \in {None, Dotted(<<1, 10>>)},
        variant \in {None, <<"a", "1">>, <<"(">>},
        package \in {None, <<"com", "a">>},
        supported_abi \in {NoApkFile.supported_abi, List(<<x86, arm64>>)},
        exact_abi \in BOOLEAN, uiauto \in BOOLEAN}

\* The matchers in use: each is called on inputs of the sets above.
NextMatch ==
    \/ NotMatching /\ \E config_version \in RequestedVersions \cup {<<>>},
          apk_version \in VersionNames :
          LooseVersionMatching(config_version, apk_version)
    \/ NotMatching /\ \E apk_version \in VersionNames,
          min_version, max_version \in RequestedVersions \cup {<<>>, None} :
          RangeVersionMatching(apk_version, min_version, max_version)
    \/ NotMatching /\ \E apk \in VersionApks, version \in VersionParams :
          ApkVersionMatches(apk, version)
    \/ NotMatching /\ \E apk \in VersionApks,
          min_version, max_version \in {None, Dotted(<<1, 9>>)} :
          ApkVersionMatchesRange(apk, min_version, max_version)
    \/ NotMatching /\ \E apk \in Apks, pattern \in Variants : FileNameMatches(apk, pattern)
    \/ NotMatching /\ \E apk \in Apks, uiauto \in BOOLEAN : UiautoTestMatches(apk, uiauto)
    \/ NotMatching /\ \E apk \in Apks, package \in Packages \ {None} :
          PackageNameMatches(apk, package)
    \/ NotMatching /\ \E apk \in NoFileApks \cup
                  {Apk(<<"b", ".", "a", "p", "k">>, None, None, None,
                       native_code) : native_code \in NativeCodes},
          supported_abi \in AbiParams, exact_abi \in BOOLEAN :
          ApkAbiMatches(apk, supported_abi, exact_abi)
    \/ NotMatching /\ \E self \in ApkFiles, apk \in Apks : Match(self, apk)
    \/ MatchingReturns

SpecMatch == Init /\ [][NextMatch]_vars

\* The cache used by two users, each with its own object on the one file, who
\* either synchronise their stores (exclusive) or do not.  The stores are
\* those of get_cacheable_apk_info: store(ApkInfo(path), apk_id, overwrite=True)
InitRace == ResolverInit /\ CacheInit /\ ApkInit /\ exclusive \in BOOLEAN

NextRace ==
    \/ \E i \in Inst : New(i)
    \/ \E i \in Inst, path \in ApkPaths :
          StoreUpdateCache(i, ApkInfo(path), apk_id(path, 1), TRUE)
    \/ \E i \in Inst : StoreInsert(i)
    \/ \E i \in Inst : StoreWriteBegins(i)
    \/ \E i \in Inst : StoreWriteEnds(i)
    \/ \E i \in Inst : StoreRename(i)
    \/ \E i \in Inst : StoreStat(i)

SpecRace == InitRace /\ [][NextRace]_vars

\* The resources in use on paths: match and match_path are called.
NextPath ==
    \/ NotMatching /\ \E self \in {File(p) : p \in FilePaths},
          path \in PathsOf(PartNames \cup ApkNames) : ResourceMatch(self, path)
    \/ NotMatching /\ \E self \in {Executable(abi, filename) :
                      abi \in {arm64, x86}, filename \in ExecutableNames},
          path \in PathsOf(PartNames \cup ApkNames) : ResourceMatch(self, path)
    \/ NotMatching /\ \E path \in PathsOf(PartNames \cup ApkNames) :
          ResourceMatch(JarFile, path)
    \/ NotMatching /\ \E self \in {ReventFile(stage, target) :
                      stage \in Stages, target \in Targets},
          path \in PathsOf(PartNames) : ReventFileMatchPath(self, path)
    \/ NotMatching /\ \E path \in PathsOf(ApkNames) :
          ApkFileMatchPath(ApkFile, path)
    \/ MatchingReturns

SpecPath == Init /\ [][NextPath]_vars

\* The cache used through one object by one thread, with no other writer of
\* the file.
NextSingle ==
    \/ New(apk_info_cache)
    \/ \E key \in ApkIds : GetInfo(apk_info_cache, key)
    \/ \E info \in ApkInfos, id \in ApkIds, overwrite \in BOOLEAN :
          StoreUpdateCache(apk_info_cache, info, id, overwrite)
    \/ StoreRaises(apk_info_cache)
    \/ StoreInsert(apk_info_cache)
    \/ StoreWriteBegins(apk_info_cache)
    \/ StoreWriteEnds(apk_info_cache)
    \/ StoreRename(apk_info_cache)
    \/ StoreStat(apk_info_cache)

SpecSingle == Init /\ [][NextSingle]_vars

(***************************************************************************)
(* Claims about register and get, checked under Spec.                      *)
(***************************************************************************)
Ids == 1..Len(registered)

\* the order in which get() calls the sources
Order == prioritylist_iter(sources)

IsPrefix(p, q) == Len(p) <= Len(q) /\ p = SubSeq(q, 1, Len(p))

ReturnsPath(n) == got.would[n] = "path"

ReturnsNone(n) == got.would[n] = "none"

\* C1: when a source registered at priority p1 and a source registered at a
\* lower priority both return a path for the resource, and every source
\* registered above p1 returns None, get returns the path of the p1 source:
\* of the first registered one when several sources of priority p1 return
\* a path (the p1 sources registered before it returning None).
C1_HighestPriorityWins ==
    got.called =>
        \A a \in Ids, b \in Ids :
            ( /\ registered[a] > registered[b]
              /\ ReturnsPath(a) /\ ReturnsPath(b)
              /\ \A c \in Ids : registered[c] > registered[a]
                                     => ReturnsNone(c)
              /\ \A c \in Ids : (registered[c] = registered[a] /\ c < a)
                                     => ReturnsNone(c) )
            => (got.status = "returned" /\ got.value = Path(a))

C1_Witness ==
    /\ got.called
    /\ Len(registered) = 3
    /\ registered[1] < registered[2]
    /\ registered[3] > registered[2]
    /\ ReturnsPath(1) /\ ReturnsPath(2) /\ ReturnsNone(3)
    /\ got.value = Path(2)

\* C2: when every registered source returns None (also when no source is
\* registered), a strict get fails with ResourceError and a non-strict get
\* returns None without raising.
C2_NotFound ==
    (got.called /\ \A n \in Ids : ReturnsNone(n)) =>
        IF got.strict
        THEN got.status = "ResourceError"
        ELSE got.status = "returned" /\ got.value = NoPath

C2_Witness ==
    /\ got.called
    /\ got.strict
    /\ Len(registered) = 2
    /\ \A n \in Ids : ReturnsNone(n)
    /\ got.status = "ResourceError"
    /\ Len(got.probed) = 2

\* C3: when a get returns a path, the sources that were called are exactly
\* the sources up to the returning one in the iteration order, each called
\* once; the earlier ones returned None and no later one was called.
C3_FirstMatchReturnsAtOnce ==
    (got.called /\ got.status = "returned" /\ got.value # NoPath) =>
        LET k == Len(got.probed)
        IN  /\ k >= 1
            /\ got.probed = SubSeq(Order, 1, k)
            /\ ReturnsPath(Order[k]) /\ got.value = Path(Order[k])
            /\ \A j \in 1..(k - 1) : ReturnsNone(Order[j])

C3_Witness ==
    /\ got.called
    /\ got.status = "returned"
    /\ Len(registered) = 3
    /\ Len(got.probed) = 2
    /\ got.value = Path(got.probed[2])
    /\ ReturnsPath(Order[3])

\* C4: the sources are iterated from the highest to the lowest priority,
\* in registration order within one priority, and every get probes them in
\* that order, which depends on the registration sequence alone.
RECURSIVE StableDescending(_, _)
\* the ids of `ids`, by priority in `prios` from high to low, then by id
StableDescending(prios, ids) ==
    IF ids = {} THEN << >>
    ELSE LET first == CHOOSE x \in ids : \A y \in ids :
                          \/ prios[x] > prios[y]
                          \/ (prios[x] = prios[y] /\ x <= y)
         IN  <<first>> \o StableDescending(prios, ids \ {first})

C4_IterationOrder ==
    /\ Order = StableDescending(registered, Ids)
    /\ got.called => IsPrefix(got.probed, StableDescending(registered, Ids))

\* A(10), B(20), C(10) is probed as B, A, C
C4_Witness ==
    /\ registered = <<SourcePriority.remote, SourcePriority.lan,
                      SourcePriority.remote>>
    /\ got.called
    /\ got.probed = <<2, 1, 3>>

(***************************************************************************)
(* Claims about load, checked under SpecLoad.                              *)
(***************************************************************************)
CatalogIdx == 1..Len(Catalog)

\* getter Catalog[i] was in the getters list when the running (or last) call
\* of load began
AlreadyLoaded(i) ==
    \E j \in 1..load.getters_before : getters[j] = Catalog[i]

\* C5: a call of load does not call initialize or register on a getter that
\* was already loaded and does not append it again; when every getter of
\* the catalog was already loaded, no source is registered either.
C5_LoadedGettersNotReloaded ==
    /\ \A i \in CatalogIdx :
           AlreadyLoaded(i) => /\ load.init_calls[i] = 0
                               /\ load.register_calls[i] = 0
                               /\ load.appended[i] = 0
    /\ (\A i \in CatalogIdx : AlreadyLoaded(i))
           => (/\ Len(getters) = load.getters_before
               /\ Len(registered) = load.sources_before)

\* C6: when initialize or register of getter number k raises, load ends
\* with that exception, no later getter is initialized or registered, and
\* the getters list holds what it held before plus the getters before k.
C6_RaisePropagates ==
    load.raised_at # 0 =>
        LET k == load.raised_at
        IN  /\ load.status = "raised"
            /\ load.pc = "idle"
            /\ \A j \in CatalogIdx : j > k => /\ load.init_calls[j] = 0
                                               /\ load.register_calls[j] = 0
            /\ load.appended[k] = 0
            /\ Len(getters) = load.getters_before + k - 1
            /\ \A j \in 1..(k - 1) :
                   getters[load.getters_before + j] = Catalog[j]

\* the second getter raises in register after it registered a source
C6_Witness ==
    /\ load.raised_at = 2
    /\ load.register_calls[2] = 1
    /\ load.status = "raised"
    /\ Len(registered) = 2
    /\ getters = <<Catalog[1]>>

\* C7: within one call of load, initialize is called once on each getter
\* and before its register; register is called once; the getter is appended
\* only after its register returned; and every source registered so far is
\* in the source list, so also when the next getter is initialized.
C7_LoadOrder ==
    /\ \A i \in CatalogIdx :
           /\ load.init_calls[i] <= 1
           /\ load.register_calls[i] <= load.init_calls[i]
           /\ load.register_returned[i] <= load.register_calls[i]
           /\ load.appended[i] <= load.register_returned[i]
    /\ load.pc \in {"register", "registering", "append"}
           => load.init_calls[load.i] = 1
    /\ load.pc = "initialize" => load.init_calls[load.i] = 0
    /\ load.status = "returned"
           => \A i \in CatalogIdx : /\ load.init_calls[i] = 1
                                     /\ load.register_calls[i] = 1
                                     /\ load.appended[i] = 1
    /\ \A n \in Ids : \E k \in 1..Len(Order) : Order[k] = n

\* the second getter is about to be initialized, the first one registered
\* two sources and was appended
C7_Witness ==
    /\ load.pc = "initialize"
    /\ load.i = 2
    /\ Len(registered) = 2
    /\ load.appended[1] = 1
    /\ getters = <<Catalog[1]>>

(***************************************************************************)
(* Claims about ApkInfoCache, checked under SpecCache.                     *)
(***************************************************************************)
\* the table a complete file holds; no file holds no table
TableOf(f) == IF f.state = "complete" THEN read_pod(f.doc) ELSE EmptyTable

\* what get_info(key) returns when called now on object i
GetInfoNow(i, key) ==
    get_info(update_cache(cache[i], last_modified[i]).cache, key)

\* what get_info(key) returns when called now on a new object on the file
GetInfoNew(key) == get_info(update_cache(EmptyTable, 0).cache, key)

StoreJustReturned == Idle /\ ret.op = "store" /\ ret.status = "stored"

StoreJustRaised == Idle /\ ret.op = "store" /\ ret.status = "ValueError"

\* C8: right after store(info, K) returned, whatever was stored or read
\* before, get_info(K) returns a record with the attributes of info (info as
\* to_pod left it, its activities and methods extracted), on every existing
\* cache object and on a new object created on the same file.
C8_RoundTrip ==
    StoreJustReturned =>
        LET want == [status |-> "info", info |-> ret.info]
        IN  /\ ret.info = extracted(ret.info)
            /\ \A i \in Inst : alive[i] => GetInfoNow(i, ret.key) = want
            /\ GetInfoNew(ret.key) = want

\* object 1 stored a fresh ApkInfo after another key was stored; object 2
\* has not read the file since
C8_Witness ==
    /\ StoreJustReturned
    /\ ret.inst = 1
    /\ ret.info = extracted(ApkInfo("a.apk"))
    /\ Cardinality(DOMAIN cache[1]) = 2
    /\ alive[2]
    /\ last_modified[2] # fstat

\* C9: a store under a key that is in the table returns only with
\* overwrite=true, and then the table and the next get_info hold the new
\* value; with overwrite=false it raises ValueError and the value under the
\* key stays what it was, in memory and in the file.
C9_StoreExistingKey ==
    /\ StoreJustReturned =>
          /\ ret.call.had_key => ret.call.overwrite
          /\ cache[ret.inst][ret.key] = to_pod(ret.info)
          /\ GetInfoNow(ret.inst, ret.key)
                = [status |-> "info", info |-> ret.info]
    /\ StoreJustRaised =>
          /\ ret.call.had_key /\ ~ret.call.overwrite
          /\ file = ret.call.file_before
          /\ ret.key \in DOMAIN cache[ret.inst]
          /\ cache[ret.inst][ret.key] = TableOf(ret.call.file_before)[ret.key]
    /\ \A i \in Inst :
          (pc[i] = "insert" /\ call[i].had_key /\ ~call[i].overwrite)
              => ENABLED StoreRaises(i) /\ ~ENABLED StoreInsert(i)

\* the pod of a.apk under a key is replaced by the pod of b.apk
C9_Witness ==
    /\ StoreJustReturned
    /\ ret.call.had_key
    /\ ret.call.overwrite
    /\ TableOf(ret.call.file_before)[ret.key] = to_pod(ApkInfo("a.apk"))
    /\ ret.info = extracted(ApkInfo("b.apk"))

\* the file a store that began with call arguments c leaves when it is done
FileAfter(c) ==
    CompleteFile(write_pod(Insert(TableOf(c.file_before), c.apk_id,
                                  to_pod(c.apk_info))))

\* C10: at every step of a store the file at path is complete and holds
\* either the table from before the store or that table with the new entry,
\* so a process that dies in a store leaves one of the two and a new cache
\* object reads it; last_modified is taken when the new file is in place.
C10_AtomicPersist ==
    /\ file.state # "partial"
    /\ \A i \in Inst :
          /\ pc[i] \in {"insert", "write", "writing", "rename"}
                => file = call[i].file_before
          /\ pc[i] = "stat" => file = FileAfter(call[i])
    /\ (ret.op = "crash" /\ ret.status # "idle")
          => file \in {ret.call.file_before, FileAfter(ret.call)}
    /\ StoreJustReturned => file = FileAfter(ret.call)
    /\ ret.op = "init" => ret.status = "returned"

\* the process died while write_pod was writing; the file is the old one
C10_Witness ==
    /\ ret.op = "crash"
    /\ ret.status = "writing"
    /\ file.state = "complete"
    /\ file = ret.call.file_before
    /\ file # FileAfter(ret.call)


(***************************************************************************)
(* Claims about get_cacheable_apk_info, checked under SpecApkInfo.         *)
(***************************************************************************)
GetCacheableJustEnded == ret.op = "get_cacheable_apk_info"

\* the table a call on the module's cache object would now look into
TableNow ==
    update_cache(cache[apk_info_cache], last_modified[apk_info_cache]).cache

\* C11: get_cacheable_apk_info(path) returns None when path is None and
\* also when there is no file at path, without raising; for any other path
\* it returns the metadata of the apk.
C11_NoneForMissingFile ==
    GetCacheableJustEnded =>
        IF ret.key[1] = "None" \/ ret.key[2] = 0
        THEN ret.status = "None"
        ELSE /\ ret.status \in {"hit", "miss"}
             /\ ret.info = extracted(ApkInfo(ret.key[1]))

\* C12: the call looks up the key made of the path and the st_mtime.  On a
\* hit it returns the cached metadata, extracts nothing and leaves the cache
\* file alone; on a miss it extracts the metadata, stores it under the key
\* (the table and the file then hold it) and returns it; and as long as the
\* st_mtime of the path stays what it was, a second call is a hit.
C12_HitOrMiss ==
    GetCacheableJustEnded /\ ret.status \in {"hit", "miss"} =>
        LET id == ret.key
            path == id[1]
        IN  /\ (ret.status = "hit") <=> ret.call.had_key
            /\ ret.status = "hit" =>
                  /\ file = ret.call.file_before
                  /\ ret.call.apk_info = ApkInfo("None")
                  /\ ret.info = from_pod(read_pod(file.doc)[id])
            /\ ret.status = "miss" =>
                  /\ ret.call.apk_info = ApkInfo(path)
                  /\ ret.call.overwrite
                  /\ file # ret.call.file_before
                  /\ id \in DOMAIN cache[apk_info_cache]
                  /\ file = CompleteFile(write_pod(cache[apk_info_cache]))
                  /\ ret.info = from_pod(read_pod(file.doc)[id])
            /\ apk_mtime[path] = id[2] =>
                  get_info(TableNow, apk_id(path, apk_mtime[path])).status
                      = "info"

\* a second call on an unchanged apk was a hit, in a process that started
\* after the first
C12_Witness ==
    /\ GetCacheableJustEnded
    /\ ret.status = "hit"
    /\ ret.key[2] = apk_mtime[ret.key[1]]
    /\ Cardinality(DOMAIN TableNow) >= 2

MatchCalled == matching.fn = "match"

\* what each predicate of ApkFile.match gives for the call that was made
Predicate ==
    LET self == matching.self
        apk == matching.apk
    IN  [uiauto |-> uiauto_test_matches(apk, self.uiauto),
         version |-> apk_version_matches(apk, self.version),
         version_range |-> apk_version_matches_range(apk, self.min_version,
                                                     self.max_version),
         variant |-> file_name_matches(apk, self.variant),
         package |-> package_name_matches(apk, self.package),
         supported_abi |-> apk_abi_matches(apk, self.supported_abi,
                                           self.exact_abi)]

\* the predicates whose parameter was set to something, uiauto left aside
Supplied ==
    LET self == matching.self
    IN  {p \in {"version"} : given(self.version)}
        \cup {p \in {"version_range"} :
                 truthy(self.min_version) \/ truthy(self.max_version)}
        \cup {p \in {"variant"} : truthy(self.variant)}
        \cup {p \in {"package"} : truthy(self.package)}
        \cup {p \in {"supported_abi"} : given(self.supported_abi)}

\* match came to the conjunction of the predicates ps, or raised as one of
\* them did
IsConjunctionOf(ps) ==
    IF \E p \in ps : Predicate[p] \notin {"True", "False"}
    THEN matching.result \notin {"True", "False"}
    ELSE (matching.result = "True") <=> \A p \in ps : Predicate[p] = "True"

\* C13 as it is stated: ApkFile.match is the conjunction of exactly the
\* predicates whose parameter was supplied, uiauto like the others; a
\* predicate whose parameter was left at its default cannot make it fail.
C13_OnlySuppliedPredicates ==
    MatchCalled /\ matching.result \in {"True", "False"} =>
        IsConjunctionOf(Supplied
                        \cup {p \in {"uiauto"} : matching.self.uiauto})

\* C13, amended: ApkFile.match is the conjunction of uiauto_test_matches,
\* which is evaluated whatever uiauto is, and of exactly those of the other
\* predicates whose parameter is set to a non-empty value; it raises when
\* one of these raises.
C13_UiautoAlways ==
    MatchCalled => IsConjunctionOf(Supplied \cup {"uiauto"})

\* an ApkFile with no parameter at all rejected an apk of a uiauto test
C13_Witness ==
    /\ MatchCalled
    /\ matching.self = NoApkFile
    /\ matching.apk.file = "apk"
    /\ contains(matching.apk.package, uiauto_marker)
    /\ matching.result = "False"

\* C17: apk_abi_matches accepts an apk that declares no native code
\* whatever ABIs are asked for; with exact_abi it accepts exactly when the
\* first ABI asked for is in the native code of the apk; otherwise exactly
\* when one of the ABIs asked for is.
C17_AbiModes ==
    matching.fn = "apk_abi_matches" /\ matching.apk.file = "apk" =>
        LET native_code == matching.apk.native_code
            asked == list_or_string(matching.self.supported_abi)
        IN  /\ native_code = <<>> => matching.result = "True"
            /\ native_code # <<>> /\ matching.self.exact_abi /\ asked # <<>>
                  => ((matching.result = "True")
                         <=> is_in(asked[1], native_code))
            /\ native_code # <<>> /\ ~matching.self.exact_abi
                  => ((matching.result = "True")
                         <=> \E abi \in {asked[i] : i \in 1..Len(asked)} :
                                 is_in(abi, native_code))

\* with exact_abi an apk was rejected though it has the second ABI asked for
C17_Witness ==
    /\ matching.fn = "apk_abi_matches"
    /\ matching.apk.file = "apk"
    /\ matching.self.exact_abi
    /\ matching.self.supported_abi = List(<<x86_64, arm64>>)
    /\ matching.apk.native_code = <<arm64>>
    /\ matching.result = "False"

\* C18: every matcher and ApkFile.match returns True or False and never
\* raises, whatever the candidate and the parameters; when the version name
\* of the metadata is None or empty the predicates of versions return False.
C18_Total ==
    ~NotMatching =>
        /\ matching.result \in {"True", "False"}
        /\ (/\ matching.fn \in {"apk_version_matches",
                                "apk_version_matches_range",
                                "range_version_matching"}
            /\ ~truthy(matching.apk.version_name))
              => matching.result = "False"

\* C20: apk_version_matches accepts exactly when one of the versions asked
\* for (a single string counts as a list of one) equals the version name or
\* the version code of the apk or loosely matches the version name; it
\* rejects when none does and when there is no metadata.
C20_AnyVersion ==
    matching.fn = "apk_version_matches" =>
        LET apk == matching.apk
            asked == IF matching.self.version.kind = "str"
                     THEN {matching.self.version.value}
                     ELSE {matching.self.version.value[i] :
                              i \in 1..Len(matching.self.version.value)}
        IN  /\ matching.result \in {"True", "False"}
            /\ (matching.result = "True") <=>
                  /\ apk.file = "apk"
                  /\ \E v \in asked :
                        \/ v = apk.version_name
                        \/ v = apk.version_code
                        \/ loose_version_matching(v, apk.version_name)

(***************************************************************************)
(* Claims about the matchers, checked under SpecMatch.                     *)
(***************************************************************************)
\* the version of the segments, as text: V(<<1, 2>>) is "1.2"
V(segs) == Dotted(segs)

\* C14: loose_version_matching(config_version, apk_version) holds exactly
\* when the tuple of config_version is a prefix of the tuple of apk_version:
\* "1.2" loosely matches "1.2.7", "1.2.7" does not match "1.2", and "1.2"
\* does not match "1.3".
C14_LoosePrefix ==
    /\ matching.fn = "loose_version_matching" =>
          LET c == version_tuple(matching.self.version.value)
              a == version_tuple(matching.apk.version_name)
          IN  (matching.result = "True") <=> IsPrefix(c, a)
    /\ loose_version_matching(V(<<1, 2>>), V(<<1, 2, 7>>))
    /\ ~loose_version_matching(V(<<1, 2, 7>>), V(<<1, 2>>))
    /\ ~loose_version_matching(V(<<1, 2>>), V(<<1, 3>>))

\* a longer requested version was rejected for an apk whose version is its
\* prefix
C14_Witness ==
    /\ matching.fn = "loose_version_matching"
    /\ matching.self.version.value = V(<<1, 2, 7>>)
    /\ matching.apk.version_name = V(<<1, 2>>)
    /\ matching.result = "False"

\* a >= b of two version tuples
tuple_ge(a, b) == a = b \/ tuple_lt(b, a)

RangeCalled == matching.fn = "range_version_matching"

\* C15: range_version_matching(apk_version, min_version, max_version) holds
\* exactly when apk_version is neither None nor empty, its tuple is at least
\* the tuple of min_version when min_version is given, and at most the tuple
\* of max_version when max_version is given.
C15_RangeInclusive ==
    RangeCalled =>
        LET a == version_tuple(matching.apk.version_name)
            min_version == matching.self.min_version
            max_version == matching.self.max_version
        IN  (matching.result = "True") <=>
                /\ matching.apk.version_name \notin {None, <<>>}
                /\ truthy(min_version) => tuple_ge(a, version_tuple(min_version))
                /\ truthy(max_version) => tuple_ge(version_tuple(max_version), a)

\* an apk above max_version was rejected though it is above min_version
C15_Witness ==
    /\ RangeCalled
    /\ matching.self.min_version = V(<<1, 2>>)
    /\ matching.self.max_version = V(<<1, 10>>)
    /\ matching.apk.version_name = V(<<2, 1>>)
    /\ matching.result = "False"

\* the tuple of a version written from numbers is those numbers
TupleOfWritten ==
    \A n \in 1..MaxSegments : \A segs \in SegmentTuples(n) :
        version_tuple(Dotted(segs)) = segs

\* C16: versions compare by the numbers of their segments: the tuple of a
\* version written from numbers is those numbers, "1.10" is above "1.9", a
\* min_version of "1.9" accepts "1.10" and a max_version of "1.9" rejects
\* it.
C16_NumericSegments ==
    /\ TupleOfWritten
    /\ tuple_lt(version_tuple(V(<<1, 9>>)), version_tuple(V(<<1, 10>>)))
    /\ RangeCalled /\ matching.apk.version_name = V(<<1, 10>>) =>
          /\ matching.self.min_version = V(<<1, 9>>)
             /\ ~truthy(matching.self.max_version)
                => matching.result = "True"
          /\ matching.self.max_version = V(<<1, 9>>)
                => matching.result = "False"

\* "1.10" was accepted with a min_version of "1.9"
C16_Witness ==
    /\ RangeCalled
    /\ matching.apk.version_name = V(<<1, 10>>)
    /\ matching.self.min_version = V(<<1, 9>>)
    /\ matching.self.max_version = None
    /\ matching.result = "True"

(***************************************************************************)
(* A claim about failing sources, checked under Spec.                      *)
(***************************************************************************)
\* the source that is n-th in the iteration order was called and failed:
\* it returned None or raised
Failed(n) ==
    /\ n <= Len(got.probed)
    /\ ~ReturnsPath(Order[n])

\* C19: a source that fails, by returning None or by raising, does not end
\* the get: the source after it in the iteration order is called too, and a
\* get that gives no path has called every source.
C19_FailedSourceDoesNotAbort ==
    got.called =>
        /\ \A n \in 1..Len(Order) :
               Failed(n) /\ n < Len(Order) => Len(got.probed) > n
        /\ ~(got.status = "returned" /\ got.value # NoPath)
              => got.probed = Order
(***************************************************************************)
(* Claims about re-synchronisation, checked under SpecCache.               *)
(***************************************************************************)
\* object i starts a get_info or a store in this step
GetInfoStep(i) == \E key \in ApkIds : GetInfo(i, key)

StoreStep(i) ==
    \E info \in ApkInfos, id \in ApkIds, overwrite \in BOOLEAN :
        StoreUpdateCache(i, info, id, overwrite)

\* the file at path has changed since object i last read or wrote it
FileChanged(i) == file.state = "complete" /\ last_modified[i] # fstat

\* C21: a get_info and a store first bring the table of the object up to
\* date: when the file has changed since the object last read or wrote it,
\* the table becomes the table of the file and get_info answers from the
\* file, and when the file has not changed the table is left as it is.
C21_ResyncBeforeUse ==
    [][\A i \in Inst :
          /\ (GetInfoStep(i) \/ StoreStep(i)) =>
                IF FileChanged(i)
                THEN /\ cache'[i] = read_pod(file.doc)
                     /\ last_modified'[i] = fstat
                ELSE /\ cache'[i] = cache[i]
                     /\ last_modified'[i] = last_modified[i]
          /\ (GetInfoStep(i) /\ FileChanged(i)) =>
                /\ ret'.status = "info" <=> ret'.key \in DOMAIN TableOf(file)
                /\ ret'.status = "info" =>
                      ret'.info = from_pod(TableOf(file)[ret'.key])]_vars

\* get_info of one object has returned an entry that its table did not hold
\* and that the other object holds and has written or read at this stat
C21_Witness ==
    /\ ret.op = "get_info"
    /\ ret.status = "info"
    /\ ~ret.call.had_key
    /\ \E j \in Inst \ {ret.inst} :
          /\ alive[j]
          /\ last_modified[j] = fstat
          /\ ret.key \in DOMAIN cache[j]

(***************************************************************************)
(* Claims about concurrent stores, checked under SpecRace.                 *)
(***************************************************************************)
KeysOf(f) == DOMAIN TableOf(f)

StoreCompleted == ret.op = "store" /\ ret.status = "stored"

\* the file lacks the key of a store that has completed
LostUpdate == StoreCompleted /\ ret.key \notin KeysOf(file)

\* C22: when the users of the cache file synchronise their stores, a key
\* whose store has completed is in the file and no later store takes a key
\* out of the file: no update is lost.  (Without synchronisation a lost
\* update is reachable: C22_Witness.)
C22_NoLostUpdateWhenExclusive ==
    /\ [](exclusive => ~LostUpdate)
    /\ [][exclusive => KeysOf(file) \subseteq KeysOf(file')]_vars

\* two stores for different keys have interleaved without synchronisation,
\* both have completed, and the file holds only the key of the other one
C22_Witness ==
    /\ ~exclusive
    /\ Idle
    /\ LostUpdate
    /\ \E k \in KeysOf(file) : k # ret.key

(***************************************************************************)
(* Claims about a rewritten apk, checked under SpecApkInfo.                *)
(***************************************************************************)
\* the cache file holds metadata of the apk at path, but only for st_mtimes
\* that the apk no longer has
Stale(path) ==
    /\ apk_mtime[path] # 0
    /\ <<path, apk_mtime[path]>> \notin KeysOf(file)
    /\ \E m \in 1..MaxMtime : <<path, m>> \in KeysOf(file)

\* C23: when the st_mtime of an apk has changed since its metadata was
\* cached, get_cacheable_apk_info does not answer from the old entry: it
\* extracts the metadata again, stores it under the key of the new st_mtime
\* and returns it, and every entry the file held, the old one of this apk
\* included, stays in the file as it was.
C23_NewMtimeNewEntry ==
    [][\A path \in ApkPaths :
          GetCacheableApkInfo(path) /\ Stale(path) =>
              /\ ret'.status = "miss"
              /\ ret'.call.apk_info = ApkInfo(path)
              /\ ret'.info = extracted(ApkInfo(path))
              /\ <<path, apk_mtime[path]>> \in KeysOf(file')
              /\ TableOf(file')[<<path, apk_mtime[path]>>]
                     = to_pod(ApkInfo(path))
              /\ \A k \in KeysOf(file) :
                    /\ k \in KeysOf(file')
                    /\ TableOf(file')[k] = TableOf(file)[k]]_vars

\* a call after the apk was written again has missed and stored, and the
\* file holds the entries of both st_mtimes
C23_Witness ==
    /\ GetCacheableJustEnded
    /\ ret.status = "miss"
    /\ ret.key[2] = 2
    /\ apk_mtime[ret.key[1]] = 2
    /\ <<ret.key[1], 1>> \in KeysOf(file)
    /\ <<ret.key[1], 2>> \in KeysOf(file)

(***************************************************************************)
(* Claims about the named priorities, checked under Spec.                  *)
(***************************************************************************)
\* the names of SourcePriority in the order they are to be probed
TierNames == <<"perferred", "local", "lan", "remote", "package">>

\* the place in TierNames of the name whose value is p
TierRank(p) == CHOOSE r \in 1..Len(TierNames) : SourcePriority[TierNames[r]] = p

\* C24: the priorities are perferred 40, local 30, lan 20, remote 10 and
\* package 0; get probes the sources tier by tier in that order, perferred
\* first and package last; and a source registered with no priority is put
\* at the end of the local tier.
C24_NamedTiers ==
    /\ [](/\ SourcePriority.perferred = 40
          /\ SourcePriority.local = 30
          /\ SourcePriority.lan = 20
          /\ SourcePriority.remote = 10
          /\ SourcePriority.package = 0
          /\ got.called =>
                \A i, j \in 1..Len(got.probed) :
                    i < j => TierRank(registered[got.probed[i]])
                                 <= TierRank(registered[got.probed[j]]))
    /\ [][RegisterDefault =>
             /\ sources'[SourcePriority.local]
                    = Append(sources[SourcePriority.local],
                             Len(registered) + 1)
             /\ \A p \in Priorities \ {SourcePriority.local} :
                    sources'[p] = sources[p]]_vars

\* sources registered at lan, at no priority and at perferred, and a source
\* at package: a get that found nothing probed perferred, local, lan,
\* package
C24_Witness ==
    /\ got.called
    /\ Len(got.probed) >= 3
    /\ registered[got.probed[1]] = SourcePriority.perferred
    /\ registered[got.probed[2]] = SourcePriority.local
    /\ registered[got.probed[3]] \in {SourcePriority.lan, SourcePriority.package}
    /\ got.probed[1] > got.probed[2]

(***************************************************************************)
(* Claims about match_path, checked under SpecPath.                        *)
(***************************************************************************)
\* a call of match or match_path on a resource of this kind has returned
PathCalled(fn, kind) ==
    /\ matching.fn = fn
    /\ "path" \in DOMAIN matching
    /\ matching.self.kind = kind

\* the parts between the dots of the file name of the path of the call
NameParts == split(basename(matching.path))

\* C25: ReventFile.match_path looks at the file name of the path, split at
\* its dots.  With more than two parts it matches when the first part is
\* the target and the second the stage; with one or two parts it matches
\* when the first part is the stage, whatever the target; a resource whose
\* target is None matches no name of more than two parts.
C25_ReventName ==
    PathCalled("match_path", "revent") =>
        LET self == matching.self
        IN  /\ Len(NameParts) > 2 =>
                  (matching.result = "True" <=>
                      /\ NameParts[1] = self.target
                      /\ NameParts[2] = self.stage)
            /\ Len(NameParts) \in {1, 2} =>
                  (matching.result = "True" <=> NameParts[1] = self.stage)
            /\ (self.target = None /\ Len(NameParts) > 2) =>
                  matching.result = "False"

\* a name of three parts whose second part is the stage was rejected
\* because its first part is not the target
C25_Witness ==
    /\ PathCalled("match_path", "revent")
    /\ Len(NameParts) = 3
    /\ NameParts[2] = matching.self.stage
    /\ matching.self.target # None
    /\ NameParts[1] # matching.self.target
    /\ matching.result = "False"

\* '.apk' in every mix of upper and lower case
ApkExtensions ==
    {<<".", a, p, k>> : a \in {"a", "A"}, p \in {"p", "P"}, k \in {"k", "K"}}

\* C26: File.match accepts exactly the path the File was made with;
\* Executable.match accepts the paths whose file name is its filename,
\* whatever its abi; JarFile.match accepts every path; ApkFile.match_path
\* accepts the paths whose extension is '.apk' in upper or lower case.
C26_PathMatchers ==
    /\ PathCalled("match", "file") =>
          (matching.result = "True" <=> matching.path = matching.self.path)
    /\ PathCalled("match", "executable") =>
          (matching.result = "True" <=>
              basename(matching.path) = matching.self.filename)
    /\ PathCalled("match", "jar") => matching.result = "True"
    /\ PathCalled("match_path", "apk") =>
          (matching.result = "True" <=>
              splitext(matching.path)[2] \in ApkExtensions)

\* a path in a directory whose file name ends in '.APK' was accepted as an
\* apk
C26_Witness ==
    /\ PathCalled("match_path", "apk")
    /\ splitext(matching.path)[2] = <<".", "A", "P", "K">>
    /\ rfind(matching.path, "/") > 0
    /\ matching.result = "True"

(***************************************************************************)
(* Claims about the package and uiauto matchers, checked under SpecMatch.  *)
(***************************************************************************)
\* a matcher was called on a path that holds an apk
CalledOnApk(fn) == matching.fn = fn /\ matching.apk.file = "apk"

\* the package of the apk of the call contains 'com.arm.wa.uiauto'
HasMarker ==
    /\ matching.apk.package # None
    /\ \E off \in 0..(Len(matching.apk.package) - Len(uiauto_marker)) :
          SubSeq(matching.apk.package, off + 1, off + Len(uiauto_marker))
              = uiauto_marker

\* C27: package_name_matches accepts exactly when the path holds an apk
\* whose package is the requested one, and uiauto_test_matches exactly when
\* it holds an apk whose package has the marker 'com.arm.wa.uiauto' and
\* uiauto is asked for, or has not and is not; on an apk both return a
\* boolean; so an ApkFile made with no parameter (uiauto false) rejects
\* every apk whose package has the marker and accepts every other apk.
C27_PackageAndUiauto ==
    /\ matching.fn = "package_name_matches" =>
          (matching.result = "True" <=>
              /\ matching.apk.file = "apk"
              /\ matching.apk.package = matching.self.package)
    /\ CalledOnApk("package_name_matches") =>
          matching.result \in {"True", "False"}
    /\ matching.fn = "uiauto_test_matches" =>
          (matching.result = "True" <=>
              /\ matching.apk.file = "apk"
              /\ matching.self.uiauto <=> HasMarker)
    /\ CalledOnApk("uiauto_test_matches") =>
          matching.result \in {"True", "False"}
    /\ (CalledOnApk("match") /\ matching.self = NoApkFile) =>
          matching.result = IF HasMarker THEN "False" ELSE "True"

\* an ApkFile made with no parameter has accepted an apk of a package
\* without the marker
C27_Witness ==
    /\ CalledOnApk("match")
    /\ matching.self = NoApkFile
    /\ matching.apk.package # None
    /\ ~HasMarker
    /\ matching.result = "True"

(***************************************************************************)
(* Claims about the effects of store, checked under SpecCache.             *)
(***************************************************************************)
\* object i starts, in this step, a store that the check will reject
RejectedStoreStep(i) ==
    /\ StoreStep(i)
    /\ call'[i].apk_id \in DOMAIN cache'[i]
    /\ ~call'[i].overwrite

\* C28 as it is stated: a store that fails because the key exists and
\* overwrite is false does not rewrite the file, and the entry of the key
\* in the table of the object is after the store what it was before it.
C28_RejectedStoreKeepsEntry ==
    /\ [](StoreJustRaised => file = ret.call.file_before)
    /\ [][\A i \in Inst :
             (RejectedStoreStep(i) /\ call'[i].apk_id \in DOMAIN cache[i]) =>
                 cache'[i][call'[i].apk_id] = cache[i][call'[i].apk_id]]_vars

\* C28, amended: a store that fails because the key exists and overwrite is
\* false writes nothing: the file and its stat are what the store found,
\* no temporary file is left, and the table of the object is the table of
\* the file, with nothing inserted.  The table of the object is what it was
\* before the store when the file had not changed since the object last
\* read or wrote it; when it had, the store has read the file first.
C28_RejectedStoreWritesNothing ==
    /\ [](StoreJustRaised =>
             /\ file = ret.call.file_before
             /\ last_modified[ret.inst] = fstat
             /\ tmp[ret.inst] = NoFile
             /\ cache[ret.inst] = TableOf(file))
    /\ [][\A i \in Inst :
             RejectedStoreStep(i) =>
                 /\ file' = file
                 /\ cache'[i] = IF FileChanged(i) THEN TableOf(file)
                                ELSE cache[i]]_vars

\* a store of one object was rejected for a key whose entry the other
\* object had replaced in the file since this object last read it
C28_Witness ==
    /\ StoreJustRaised
    /\ \E j \in Inst \ {ret.inst} :
          /\ alive[j]
          /\ last_modified[j] = fstat
          /\ ret.key \in DOMAIN cache[j]
          /\ cache[j][ret.key] = cache[ret.inst][ret.key]
    /\ cache[ret.inst][ret.key] # to_pod(ApkInfo(ret.key[1]))

(***************************************************************************)
(* A claim about what get leaves alone, checked under Spec.                *)
(***************************************************************************)
\* this step is a call of get
GetStep == ~got.called /\ got'.called

\* what get would return now for the resource of the last call
GetAgain == get(sources, got.would, got.strict)

\* the resource that source n alone has
OnlyFrom(n) == [m \in Ids |-> IF m = n THEN "path" ELSE "none"]

\* C29: get changes neither the sources, their order included, nor the
\* getters, whether it returns a path, returns None or raises; a second get
\* for the same resource, the sources answering as before, calls the same
\* sources and ends the same way; and after a strict get has failed, a get
\* for a resource that a source has returns its path.
C29_GetIsReadOnly ==
    /\ [][GetStep =>
             /\ sources' = sources
             /\ getters' = getters
             /\ registered' = registered]_vars
    /\ [](got.called =>
             /\ GetAgain.status = got.status
             /\ GetAgain.value = got.value
             /\ GetAgain.probed = got.probed)
    /\ []((got.called /\ got.status = "ResourceError") =>
             \A n \in Ids :
                 /\ get(sources, OnlyFrom(n), TRUE).status = "returned"
                 /\ get(sources, OnlyFrom(n), TRUE).value = Path(n))

\* a strict get has failed on three sources of two priorities, and the
\* sources are in place for the next get
C29_Witness ==
    /\ got.called
    /\ got.status = "ResourceError"
    /\ Len(registered) = 3
    /\ registered[1] < registered[2]
    /\ registered[3] = registered[1]
    /\ Order = <<2, 1, 3>>
    /\ get(sources, OnlyFrom(3), TRUE).value = Path(3)

(***************************************************************************)
(* A claim about one cache object used alone, checked under SpecSingle.    *)
(***************************************************************************)
\* C30: with one cache object, one thread and no other writer, a completed
\* store leaves the table of the object equal to the table of the file and
\* last_modified equal to the stat of the file, so that the next get_info
\* or store does not read the file again; and a key that get_info finds is
\* found by get_info after every later store and get_info.
C30_InSyncAndRetrievable ==
    /\ [](StoreJustReturned =>
             /\ cache[apk_info_cache] = TableOf(file)
             /\ last_modified[apk_info_cache] = fstat
             /\ ret.key \in DOMAIN cache[apk_info_cache]
             /\ GetInfoNow(apk_info_cache, ret.key).status = "info")
    /\ []((Idle /\ alive[apk_info_cache]) =>
             \A key \in KeysOf(file) :
                 GetInfoNow(apk_info_cache, key).status = "info")
    /\ [][((GetInfoStep(apk_info_cache) \/ StoreStep(apk_info_cache))
              /\ file.state = "complete") =>
             /\ last_modified[apk_info_cache] = fstat
             /\ cache'[apk_info_cache] = cache[apk_info_cache]
             /\ last_modified'[apk_info_cache]
                    = last_modified[apk_info_cache]]_vars
    /\ [][KeysOf(file) \subseteq KeysOf(file')]_vars

\* the object has completed its third store; the file holds two keys, one
\* of them stored twice, and no other object exists
C30_Witness ==
    /\ StoreJustReturned
    /\ ret.inst = apk_info_cache
    /\ fstat = 3
    /\ Cardinality(KeysOf(file)) = 2
    /\ \A i \in Inst \ {apk_info_cache} : ~alive[i]

====
